---------------------------- MODULE Spec2Model ----------------------------
(***************************************************************************)
(* A model of solo's key/certificate subsystem (src/core/key_manager.mjs)  *)
(* and of the helpers it is used with (src/core/helpers.mjs):              *)
(*                                                                         *)
(*   Spec          PEM keys: generate / store / load of the signing,       *)
(*                 agreement and gRPC TLS key pairs of every node          *)
(*   SpecTopology  getNodeAccountMap over the node list of a network that  *)
(*                 nodes are added to and deleted from                     *)
(*   SpecPfx       generatePrivatePfxKeys / updatePublicPfxKey, one step   *)
(*                 per awaited keytool command, run by two invocations     *)
(*                                                                         *)
(*   SpecKeys      the key regeneration sequence backupOldPfxKeys,         *)
(*                 generatePrivatePfxKeys per node, updatePublicPfxKey,    *)
(*                 where any keytool command may fail                      *)
(*   SpecPem       convertPemToPrivateKey and loadNodeKey over private key *)
(*                 files of one or more PEM blocks                         *)
(*   SpecArgs      the argument checks of storeNodeKey, loadNodeKey,       *)
(*                 generatePrivatePfxKeys and updatePublicPfxKey           *)
(*   SpecLifecycle the Add, Update and Delete operations as pipelines of   *)
(*                 named steps (commands/node.mjs)                         *)
(*   SpecAdd       one Add whose tasks the task runner carries on with,    *)
(*                 for the health checks that poll                         *)
(*   SpecHelpers   splitFlagInput, createBackupDir, makeBackup and         *)
(*                 backupOldPemKeys, each called by itself                 *)
(*                                                                         *)
(* The specifications share one set of variables; each leaves the          *)
(* variables it does not use at their initial values.                      *)
(***************************************************************************)
EXTENDS Integers, Sequences, FiniteSets, TLC

VARIABLES
  pemFiles,    \* PEM files of keysDir: path -> sequence of PEM blocks
  held,        \* the key pair the caller holds in memory (Nothing: none yet)
  nextKey,     \* number of the next key pair crypto.subtle.generateKey makes
  lastCall,    \* history: the most recent KeyManager call, its arguments and outcome
  lastStored,  \* history: <<nodeId, role>> -> the key pair last stored for it, and
               \*   whether it was stored once or more often
  nodeIDs,     \* the network's ordered node list
  topology,    \* the network's node-to-account Map, rendered from nodeIDs
  mapArg,      \* the list a caller passes to getNodeAccountMap
  accountMap,  \* the Map that call returned (insertion-ordered entries)
  pfxFiles,    \* PKCS12 files of keysDir: path -> keystore (alias -> entry)
  tmpFiles,    \* per invocation: the files of its tmpDir
  pc,          \* per invocation: its position
  call,        \* per invocation: the call it runs and its arguments
  ret,         \* per invocation: what its call returned
  ktLog,       \* history, per invocation: the keytool commands of its call
  calls,       \* number of calls started so far
  cmd,         \* the command in progress: its node list and its position
  steps,       \* history: the steps of the command started so far, in order;
               \* of a lifecycle operation, its tasks and their outcomes
  fnArgs,      \* the arguments a pure function is called with
  fnResult     \* what that call returned

pemVars  == <<pemFiles, held, nextKey, lastCall, lastStored>>
topoVars == <<nodeIDs, topology, mapArg, accountMap>>
pfxVars  == <<pfxFiles, tmpFiles, pc, call, ret, ktLog, calls>>
cmdVars  == <<cmd, steps>>
fnVars   == <<fnArgs, fnResult>>
vars     == <<pemFiles, held, nextKey, lastCall, lastStored,
              nodeIDs, topology, mapArg, accountMap,
              pfxFiles, tmpFiles, pc, call, ret, ktLog, calls,
              cmd, steps, fnArgs, fnResult>>

\* the outcome of a call that throws
Thrown(error) == [ok |-> FALSE, error |-> error]

(***************************************************************************)
(* Bounds of the model.                                                    *)
(***************************************************************************)
\* key pairs generated in one behaviour of Spec
MaxKeys == 3

\* calls of generatePrivatePfxKeys and updatePublicPfxKey in one behaviour
MaxCalls == 3

\* invocations that may be in progress at the same time
Invocations == {"i1", "i2"}

\* length of a node list passed to getNodeAccountMap
MaxLen == 3

\* nodes of a network
MaxNodes == 4

\* PEM blocks of a private key file
MaxBlocks == 3

\* lifecycle operations started in a behaviour
MaxOps == 1

\* polling attempts of a health check
MaxAttempts == 2

\* the nodes the key operations are applied to
Nodes == {"node1", "node2"}

\* node names of the networks and node lists
NodeNames == Nodes \cup {"node3", "node4"}

\* the directory every key file is written to
KeysDir == "keys"

(***************************************************************************)
(* constants.mjs (the key prefixes) and templates.mjs (the file names).    *)
(***************************************************************************)
SIGNING_KEY_PREFIX    == "s"
AGREEMENT_KEY_PREFIX  == "a"
ENCRYPTION_KEY_PREFIX == "e"

\* the three roles a node owns a PEM key pair for
Roles == {"signing", "agreement", "tls"}

\* path.join(dir, name)
PathJoin(dir, name) == dir \o "/" \o name

\* Templates.renderGossipPemPrivateKeyFile(prefix, nodeId)
renderGossipPemPrivateKeyFile(prefix, nodeId) == prefix \o "-private-" \o nodeId \o ".pem"

\* Templates.renderGossipPemPublicKeyFile(prefix, nodeId)
renderGossipPemPublicKeyFile(prefix, nodeId) == prefix \o "-public-" \o nodeId \o ".pem"

\* Templates.renderNodeFriendlyName(prefix, nodeId)
renderNodeFriendlyName(prefix, nodeId) == prefix \o "-" \o nodeId

(***************************************************************************)
(* KeyManager.prepareNodeKeyFilePaths / prepareTLSKeyFilePaths.            *)
(***************************************************************************)
\* a slip: the file names are rendered from the prefix alone
prepareNodeKeyFilePaths_noNode(nodeId, keysDir, keyPrefix) ==
  [privateKeyFile  |-> PathJoin(keysDir, renderGossipPemPrivateKeyFile(keyPrefix, keyPrefix)),
   certificateFile |-> PathJoin(keysDir, renderGossipPemPublicKeyFile(keyPrefix, keyPrefix))]

prepareNodeKeyFilePaths(nodeId, keysDir, keyPrefix) ==
  [privateKeyFile  |-> PathJoin(keysDir, renderGossipPemPrivateKeyFile(keyPrefix, nodeId)),
   certificateFile |-> PathJoin(keysDir, renderGossipPemPublicKeyFile(keyPrefix, nodeId))]

prepareTLSKeyFilePaths(nodeId, keysDir) ==
  [privateKeyFile  |-> PathJoin(keysDir, "hedera-" \o nodeId \o ".key"),
   certificateFile |-> PathJoin(keysDir, "hedera-" \o nodeId \o ".crt")]

\* the file names storeSigningKey / storeAgreementKey / storeTLSKey (and the
\* load counterparts) pass on for a role
NodeKeyFiles(nodeId, role) ==
  CASE role = "signing"   -> prepareNodeKeyFilePaths(nodeId, KeysDir, SIGNING_KEY_PREFIX)
    [] role = "agreement" -> prepareNodeKeyFilePaths(nodeId, KeysDir, AGREEMENT_KEY_PREFIX)
    [] role = "tls"       -> prepareTLSKeyFilePaths(nodeId, KeysDir)

\* the algorithm loadSigningKey / loadAgreementKey / loadTLSKey pass on
\* (KeyManager.SigningKeyAlgo, ECKeyAlgo, TLSKeyAlgo), by its family
RoleAlgo(role) == IF role = "agreement" THEN "ECDSA" ELSE "RSASSA-PKCS1-v1_5"


(***************************************************************************)
(* WebCrypto keys and @peculiar/x509 certificates, by what the code reads  *)
(* of them.  Key pair number k has the private key and the public key of   *)
(* number k; a signature made with private key k verifies against public   *)
(* key k only.                                                             *)
(***************************************************************************)
PrivateKey(k, algo, extractable) ==
  [kind |-> "private", id |-> k, algo |-> algo, extractable |-> extractable]

PublicKey(k, algo) == [kind |-> "public", id |-> k, algo |-> algo]

\* crypto.subtle.generateKey(algo, true, usages): key pair number k
generateKey(k, algo) ==
  [privateKey |-> PrivateKey(k, algo, TRUE), publicKey |-> PublicKey(k, algo)]

\* a certificate: the fields of the generators' arguments, and the private
\* key that made its signature
Certificate(serial, subject, issuer, publicKey, signingKey, ca, keyUsage, extKeyUsage) ==
  [serialNumber |-> serial, subject |-> subject, issuer |-> issuer,
   publicKey |-> publicKey, signedBy |-> signingKey.id,
   ca |-> ca, keyUsage |-> keyUsage, extKeyUsage |-> extKeyUsage]

\* cert.verify({ publicKey, signatureOnly: true })
Verify(cert, publicKey) == cert.signedBy = publicKey.id

\* cert.isSelfSigned()
IsSelfSigned(cert) == cert.subject = cert.issuer /\ Verify(cert, cert.publicKey)

\* X509ChainBuilder.findIssuer: the first certificate of the pool whose
\* subject is the issuer and whose key verifies the signature (0: none)
RECURSIVE FindIssuerFrom(_, _, _)
FindIssuerFrom(cert, pool, i) ==
  IF i > Len(pool) THEN 0
  ELSE IF pool[i].subject = cert.issuer /\ Verify(cert, pool[i].publicKey) THEN i
  ELSE FindIssuerFrom(cert, pool, i + 1)

FindIssuer(cert, pool) == IF IsSelfSigned(cert) THEN 0 ELSE FindIssuerFrom(cert, pool, 1)

\* new X509ChainBuilder({ certificates: pool }).build(cert): cert, then its
\* issuers as long as the pool holds one; the empty chain when an issuer is
\* already in the chain (the builder throws on a circular dependency)
RECURSIVE BuildFrom(_, _)
BuildFrom(chain, pool) ==
  LET i == FindIssuer(chain[Len(chain)], pool) IN
    IF i = 0 THEN chain
    ELSE IF \E j \in 1..Len(chain) : chain[j] = pool[i] THEN <<>>
    ELSE BuildFrom(Append(chain, pool[i]), pool)

X509ChainBuild(pool, cert) == BuildFrom(<<cert>>, pool)

(***************************************************************************)
(* Key generation: generateSigningKey, ecKey (generateAgreementKey),       *)
(* generateGrpcTLSKey.  k is the number of the key pair generateKey makes. *)
(***************************************************************************)
\* a slip: the certificate's issuer is the signing key's friendly name with
\* the agreement prefix instead of the signing certificate's subject
ecKeyIssuer_ownName(nodeId, keyPrefix, signingKey) ==
  "CN=" \o renderNodeFriendlyName(keyPrefix, nodeId)

\* the issuer ecKey gives the certificate it creates
ecKeyIssuer(nodeId, keyPrefix, signingKey) == signingKey.certificate.subject

generateSigningKey(nodeId, k) ==
  LET keypair == generateKey(k, "RSASSA-PKCS1-v1_5")
      name    == "CN=" \o renderNodeFriendlyName(SIGNING_KEY_PREFIX, nodeId)
      cert    == Certificate("01", name, name, keypair.publicKey, keypair.privateKey,
                             TRUE, {"keyCertSign", "cRLSign"}, {"serverAuth", "clientAuth"})
  IN [ok |-> TRUE,
      privateKey |-> keypair.privateKey,
      certificate |-> cert,
      certificateChain |-> X509ChainBuild(<<>>, cert)]

\* KeyManager.TLSCertKeyUsages
TLSCertKeyUsages == {"digitalSignature", "keyEncipherment", "dataEncipherment"}

\* KeyManager.TLSCertKeyExtendedUsages
TLSCertKeyExtendedUsages == {"serverAuth", "clientAuth"}

\* a slip: the key usages of the signing certificate are given
ECKeyUsages_certSign == {"keyCertSign", "cRLSign"}

\* new x509.KeyUsagesExtension(digitalSignature | keyEncipherment) of ecKey
ECKeyUsages == {"digitalSignature", "keyEncipherment"}

\* a slip: the certificate is returned without being verified
ecKeyVerified_skipped(cert, signingKey) == TRUE

\* await cert.verify({ publicKey: signingKey.certificate.publicKey, signatureOnly: true })
ecKeyVerified(cert, signingKey) == Verify(cert, signingKey.certificate.publicKey)

\* Thrown: the call throws (the certificate does not verify against the
\* signing certificate's key, or no chain can be built)
ecKey(nodeId, keyPrefix, signingKey, k) ==
  LET keypair == generateKey(k, "ECDSA")
      cert    == Certificate("01", "CN=" \o renderNodeFriendlyName(keyPrefix, nodeId),
                             ecKeyIssuer(nodeId, keyPrefix, signingKey),
                             keypair.publicKey, signingKey.privateKey,
                             FALSE, ECKeyUsages, {})
      chain   == X509ChainBuild(<<signingKey.certificate>>, cert)
  IN IF ~ecKeyVerified(cert, signingKey) \/ chain = <<>>
     THEN Thrown("FullstackTestingError")
     ELSE [ok |-> TRUE,
           privateKey |-> keypair.privateKey,
           certificate |-> cert,
           certificateChain |-> chain]

generateAgreementKey(nodeId, signingKey, k) ==
  ecKey(nodeId, AGREEMENT_KEY_PREFIX, signingKey, k)

\* with the default distinguished name, CN=<nodeId>
generateGrpcTLSKey(nodeId, k) ==
  LET keypair == generateKey(k, "RSASSA-PKCS1-v1_5")
      name    == "CN=" \o nodeId
      cert    == Certificate("01", name, name, keypair.publicKey, keypair.privateKey,
                             FALSE, TLSCertKeyUsages, TLSCertKeyExtendedUsages)
  IN [ok |-> TRUE,
      privateKey |-> keypair.privateKey,
      certificate |-> cert,
      certificateChain |-> X509ChainBuild(<<>>, cert)]

(***************************************************************************)
(* PEM files.  A file is the sequence of its PEM blocks; a block has its   *)
(* label and the DER it wraps.                                             *)
(***************************************************************************)
\* x509.PemConverter.encode(der, label)
PemEncode(der, label) == [label |-> label, der |-> der]

\* x509.PemConverter.decode(text): the DER of every block, whatever its label
PemDecode(text) == [i \in 1..Len(text) |-> text[i].der]

\* crypto.subtle.exportKey('pkcs8', privateKey); only an extractable key exports
ExportPkcs8(privateKey) == [format |-> "pkcs8", id |-> privateKey.id, algo |-> privateKey.algo]

\* cert.toString('pem')
CertToPem(cert) == PemEncode([format |-> "x509", cert |-> cert], "CERTIFICATE")

\* KeyManager.convertPrivateKeyToPem
convertPrivateKeyToPem(privateKey) == PemEncode(ExportPkcs8(privateKey), "PRIVATE KEY")

\* crypto.subtle.importKey('pkcs8', der, algo, false, keyUsages) accepts the
\* DER of a private key of the algorithm's family
CanImportPkcs8(der, algo) == der.format = "pkcs8" /\ der.algo = algo

\* a slip: the first block of the file is taken
PrivateKeyItem_first(items) == items[1]

\* the block convertPemToPrivateKey imports: the last one
PrivateKeyItem(items) == items[Len(items)]

\* KeyManager.convertPemToPrivateKey(pemStr, algo): the key, not extractable
convertPemToPrivateKey(pemStr, algo) ==
  LET items == PemDecode(pemStr) IN
    IF Len(items) = 0 \/ ~CanImportPkcs8(PrivateKeyItem(items), algo)
    THEN Thrown("DataError")
    ELSE [ok |-> TRUE, key |-> PrivateKey(PrivateKeyItem(items).id, algo, FALSE)]

(***************************************************************************)
(* KeyManager.storeNodeKey and loadNodeKey on the files of keysDir.        *)
(***************************************************************************)
Exists(files, path) == path \in DOMAIN files

\* fs.writeFileSync(path, text): the file is created or replaced
WriteFile(files, path, text) ==
  [p \in DOMAIN files \cup {path} |-> IF p = path THEN text ELSE files[p]]

\* fs.writeFileSync(path, text, { flag: 'a' }): appended, created when missing
AppendFile(files, path, text) ==
  WriteFile(files, path, (IF Exists(files, path) THEN files[path] ELSE <<>>) \o text)

\* fs.rmSync(path)
RemoveFile(files, path) == [p \in DOMAIN files \ {path} |-> files[p]]

\* a slip: the existing certificate file is kept, so the chain is appended to it
RemoveOldCertificateFile_keep(files, certificateFile) == files

\* storeNodeKey, the removal of the certificate file that is already there
RemoveOldCertificateFile(files, certificateFile) ==
  IF Exists(files, certificateFile) THEN RemoveFile(files, certificateFile) ELSE files

\* certPems.forEach(certPem => fs.writeFileSync(certificateFile, certPem + '\n', { flag: 'a' }))
RECURSIVE AppendCertPems(_, _, _, _)
AppendCertPems(files, certificateFile, certPems, i) ==
  IF i > Len(certPems) THEN files
  ELSE AppendCertPems(AppendFile(files, certificateFile, <<certPems[i]>>),
                      certificateFile, certPems, i + 1)

\* whether storeNodeKey gets as far as writing: its arguments are there and
\* the private key exports
CanStoreNodeKey(nodeId, nodeKey, nodeKeyFiles) ==
  /\ nodeId # ""
  /\ nodeKey.ok
  /\ nodeKey.privateKey.extractable

\* the files after storeNodeKey(nodeId, nodeKey, keysDir, nodeKeyFiles)
storeNodeKey(files, nodeId, nodeKey, nodeKeyFiles) ==
  IF ~CanStoreNodeKey(nodeId, nodeKey, nodeKeyFiles) THEN files
  ELSE
    LET keyPem   == convertPrivateKeyToPem(nodeKey.privateKey)
        certPems == [i \in 1..Len(nodeKey.certificateChain) |->
                       CertToPem(nodeKey.certificateChain[i])]
        written  == WriteFile(files, nodeKeyFiles.privateKeyFile, <<keyPem>>)
        removed  == RemoveOldCertificateFile(written, nodeKeyFiles.certificateFile)
    IN AppendCertPems(removed, nodeKeyFiles.certificateFile, certPems, 1)

\* a slip: the last certificate of the file is returned, as for a bundle
LoadedCertificate_last(certs) == certs[Len(certs)]

\* certificate: certs[0]
LoadedCertificate(certs) == certs[1]

\* what loadNodeKey(nodeId, keysDir, algo, nodeKeyFiles) returns
loadNodeKey(files, nodeId, algo, nodeKeyFiles) ==
  IF ~Exists(files, nodeKeyFiles.privateKeyFile) THEN Thrown("ENOENT")
  ELSE
    LET key == convertPemToPrivateKey(files[nodeKeyFiles.privateKeyFile], algo) IN
      IF ~key.ok THEN key
      ELSE IF ~Exists(files, nodeKeyFiles.certificateFile) THEN Thrown("ENOENT")
      ELSE
        LET certPems == PemDecode(files[nodeKeyFiles.certificateFile]) IN
          IF Len(certPems) = 0 \/ \E i \in 1..Len(certPems) : certPems[i].format # "x509"
          THEN Thrown("TypeError")
          ELSE
            LET certs == [i \in 1..Len(certPems) |-> certPems[i].cert]
                chain == X509ChainBuild(Tail(certs), certs[1])
            IN IF chain = <<>> THEN Thrown("Error")
               ELSE [ok |-> TRUE,
                     privateKey |-> key.key,
                     certificate |-> LoadedCertificate(certs),
                     certificateChain |-> chain]

(***************************************************************************)
(* The PEM key operations as actions.  The caller holds the key pair it    *)
(* generated last and the key pair it loaded last.                         *)
(***************************************************************************)
Nothing == Thrown("nothing")

NoFiles == [p \in {} |-> <<>>]

Held(nodeId, role, nodeKey) == [nodeId |-> nodeId, role |-> role, nodeKey |-> nodeKey]

Called(op, nodeId, role, arg, result) ==
  [op |-> op, nodeId |-> nodeId, role |-> role, arg |-> arg, result |-> result]

InitPem ==
  /\ pemFiles = NoFiles
  /\ held = Held("", "", Nothing)
  /\ nextKey = 1
  /\ lastCall = Called("", "", "", Nothing, Nothing)
  /\ lastStored = [f \in Nodes \X Roles |-> [nodeKey |-> Nothing, times |-> 0]]

\* the key pair loadNodeKey returned, while that call is the last one
Loaded ==
  IF lastCall.op = "loadNodeKey"
  THEN Held(lastCall.nodeId, lastCall.role, lastCall.result)
  ELSE Held("", "", Nothing)

\* the key pairs the caller can pass on
InHand == {h \in {held, Loaded} : h.nodeKey.ok}

\* const signingKey = await keyManager.generateSigningKey(nodeId)
GenerateSigningKey(n) ==
  /\ nextKey <= MaxKeys
  /\ LET nodeKey == generateSigningKey(n, nextKey) IN
       /\ held' = Held(n, "signing", nodeKey)
       /\ lastCall' = Called("generateSigningKey", n, "signing", Nothing, nodeKey)
  /\ nextKey' = nextKey + 1
  /\ UNCHANGED <<pemFiles, lastStored>>

\* the signing key objects the caller can pass on: a signing key pair in
\* hand, or the private key of one with the certificate of another
SigningKeysInHand ==
  {[ok |-> TRUE,
    privateKey |-> a.nodeKey.privateKey,
    certificate |-> b.nodeKey.certificate,
    certificateChain |-> b.nodeKey.certificateChain] :
      a, b \in {h \in InHand : h.role = "signing"}}

\* const agreementKey = await keyManager.generateAgreementKey(nodeId, signingKey),
\* with a signing key object made of what the caller generated or loaded
GenerateAgreementKey(n) ==
  /\ nextKey <= MaxKeys
  /\ \E signingKey \in SigningKeysInHand :
       LET nodeKey == generateAgreementKey(n, signingKey, nextKey) IN
         /\ held' = IF nodeKey.ok THEN Held(n, "agreement", nodeKey) ELSE held
         /\ lastCall' = Called("generateAgreementKey", n, "agreement", signingKey, nodeKey)
  /\ nextKey' = nextKey + 1
  /\ UNCHANGED <<pemFiles, lastStored>>

\* const tlsKey = await keyManager.generateGrpcTLSKey(nodeId)
GenerateGrpcTLSKey(n) ==
  /\ nextKey <= MaxKeys
  /\ LET nodeKey == generateGrpcTLSKey(n, nextKey) IN
       /\ held' = Held(n, "tls", nodeKey)
       /\ lastCall' = Called("generateGrpcTLSKey", n, "tls", Nothing, nodeKey)
  /\ nextKey' = nextKey + 1
  /\ UNCHANGED <<pemFiles, lastStored>>

\* storeSigningKey / storeAgreementKey / storeTLSKey(nodeId, nodeKey, keysDir)
\* of a key pair in hand, for its node and by the store method of its role;
\* a loaded private key is not extractable and the call throws
StoreKey ==
  /\ \E h \in InHand :
       LET nodeKeyFiles == NodeKeyFiles(h.nodeId, h.role)
           stored       == CanStoreNodeKey(h.nodeId, h.nodeKey, nodeKeyFiles)
       IN /\ pemFiles' = storeNodeKey(pemFiles, h.nodeId, h.nodeKey, nodeKeyFiles)
          /\ lastStored' = IF stored
                           THEN [lastStored EXCEPT ![<<h.nodeId, h.role>>] =
                                   [nodeKey |-> h.nodeKey,
                                    times |-> IF @.times = 0 THEN 1 ELSE 2]]
                           ELSE lastStored
          /\ lastCall' = Called("storeNodeKey", h.nodeId, h.role, h.nodeKey,
                                IF stored THEN [ok |-> TRUE, files |-> nodeKeyFiles]
                                ELSE Thrown("InvalidAccessError"))
  /\ UNCHANGED <<held, nextKey>>

\* loadSigningKey / loadAgreementKey / loadTLSKey(nodeId, keysDir)
LoadKey(n, role) ==
  /\ lastCall' = Called("loadNodeKey", n, role, Nothing,
                        loadNodeKey(pemFiles, n, RoleAlgo(role), NodeKeyFiles(n, role)))
  /\ UNCHANGED <<pemFiles, held, nextKey, lastStored>>

(***************************************************************************)
(* helpers.mjs: getNodeAccountMap.  A JavaScript Map is the sequence of    *)
(* its entries in insertion order.                                         *)
(***************************************************************************)
\* constants.HEDERA_NODE_ACCOUNT_ID_START
HEDERA_NODE_ACCOUNT_ID_START == [realm |-> 0, shard |-> 0, num |-> 3]

\* `${realm}.${shard}.${accountId}`
NodeAccount(realm, shard, accountId) ==
  ToString(realm) \o "." \o ToString(shard) \o "." \o ToString(accountId)

MapHas(map, key) == \E i \in 1..Len(map) : map[i].key = key

MapGet(map, key) == map[CHOOSE i \in 1..Len(map) : map[i].key = key].value

MapKeys(map) == [i \in 1..Len(map) |-> map[i].key]

\* a slip: the map keeps the entry set last and no other
MapSet_overwrite(map, key, value) == <<[key |-> key, value |-> value]>>

\* map.set(key, value): a key already there keeps its place and takes the value
MapSet(map, key, value) ==
  IF MapHas(map, key)
  THEN [i \in 1..Len(map) |-> IF map[i].key = key THEN [key |-> key, value |-> value] ELSE map[i]]
  ELSE Append(map, [key |-> key, value |-> value])

\* a slip: the number is not incremented from one node to the next
NextAccountId_same(accountId) == accountId

\* accountId++
NextAccountId(accountId) == accountId + 1

\* nodeIDs.forEach(nodeID => accountMap.set(nodeID, `${realm}.${shard}.${accountId++}`))
RECURSIVE ForEachNodeID(_, _, _, _)
ForEachNodeID(nodeIDList, i, accountId, map) ==
  IF i > Len(nodeIDList) THEN map
  ELSE ForEachNodeID(nodeIDList, i + 1, NextAccountId(accountId),
                     MapSet(map, nodeIDList[i],
                            NodeAccount(HEDERA_NODE_ACCOUNT_ID_START.realm,
                                        HEDERA_NODE_ACCOUNT_ID_START.shard, accountId)))

getNodeAccountMap(nodeIDList) ==
  ForEachNodeID(nodeIDList, 1, HEDERA_NODE_ACCOUNT_ID_START.num, <<>>)

(***************************************************************************)
(* The network's node list under add, update and delete, and the topology  *)
(* recomputed from it; and a caller of getNodeAccountMap with any list.    *)
(***************************************************************************)
\* the lists of at most n names
ListsUpTo(n) == UNION {[1..m -> NodeNames] : m \in 0..n}

NoDuplicates(list) == \A i, j \in 1..Len(list) : list[i] = list[j] => i = j

InList(list, x) == \E i \in 1..Len(list) : list[i] = x

\* the list without x, the others in their order
RECURSIVE Without(_, _)
Without(list, x) ==
  IF list = <<>> THEN <<>>
  ELSE IF Head(list) = x THEN Without(Tail(list), x)
  ELSE <<Head(list)>> \o Without(Tail(list), x)

InitTopology ==
  /\ nodeIDs \in {l \in ListsUpTo(MaxNodes - 1) : Len(l) >= 1 /\ NoDuplicates(l)}
  /\ topology = getNodeAccountMap(nodeIDs)
  /\ mapArg = <<>>
  /\ accountMap = <<>>

\* Add: the new node's name is not in the network; it joins the list at its end
AddNode(n) ==
  /\ Len(nodeIDs) < MaxNodes
  /\ ~InList(nodeIDs, n)
  /\ nodeIDs' = Append(nodeIDs, n)
  /\ topology' = getNodeAccountMap(nodeIDs')
  /\ UNCHANGED <<mapArg, accountMap>>

\* Update: the node list stays as it is, the topology is rendered again
UpdateNode(n) ==
  /\ InList(nodeIDs, n)
  /\ nodeIDs' = nodeIDs
  /\ topology' = getNodeAccountMap(nodeIDs')
  /\ UNCHANGED <<mapArg, accountMap>>

\* Delete: the node leaves the list
DeleteNode(n) ==
  /\ InList(nodeIDs, n)
  /\ Len(nodeIDs) > 1
  /\ nodeIDs' = Without(nodeIDs, n)
  /\ topology' = getNodeAccountMap(nodeIDs')
  /\ UNCHANGED <<mapArg, accountMap>>

\* getNodeAccountMap(list) for any list, duplicates included
CallGetNodeAccountMap(list) ==
  /\ mapArg' = list
  /\ accountMap' = getNodeAccountMap(list)
  /\ UNCHANGED <<nodeIDs, topology>>

(***************************************************************************)
(* PKCS12 keystores and the keytool commands (core/keytool.mjs).  A        *)
(* keystore is a function from alias to entry.  A key made by call c under *)
(* alias a is the key <<c, a>>.                                            *)
(***************************************************************************)
NoEntries == [a \in {} |-> <<>>]

KeytoolCert(subject, issuer, key) == [subject |-> subject, issuer |-> issuer, key |-> key]

\* the keystore with the entry of alias set
PutEntry(store, alias, entry) ==
  [a \in DOMAIN store \cup {alias} |-> IF a = alias THEN entry ELSE store[a]]

\* keytool -genkeypair -alias alias -dname dname: a key entry with a
\* self-signed certificate
KeytoolGenKeyPair(store, alias, dname, key) ==
  PutEntry(store, alias,
           [kind |-> "PrivateKeyEntry", key |-> key, cert |-> KeytoolCert(dname, dname, key)])

\* keytool -certreq -alias alias: the request for the alias's key
KeytoolCertReq(store, alias) == [subject |-> store[alias].cert.subject, key |-> store[alias].key]

\* keytool -gencert -alias signer -infile request: the request's
\* certificate, issued by the signer
KeytoolGenCert(store, signer, request) ==
  KeytoolCert(request.subject, store[signer].cert.subject, request.key)

\* keytool -importcert -alias alias -noprompt -file cert: the certificate
\* of a key entry is replaced, any other alias becomes a trusted certificate
KeytoolImportCert(store, alias, cert) ==
  IF alias \in DOMAIN store /\ store[alias].kind = "PrivateKeyEntry"
  THEN PutEntry(store, alias, [store[alias] EXCEPT !.cert = cert])
  ELSE PutEntry(store, alias, [kind |-> "trustedCertEntry", key |-> cert.key, cert |-> cert])

\* keytool -exportcert -alias alias
KeytoolExportCert(store, alias) == store[alias].cert

(***************************************************************************)
(* KeyManager.generatePrivatePfxKeys and updatePublicPfxKey.               *)
(***************************************************************************)
PUBLIC_PFX == "public.pfx"

PrivatePfxName(nodeId) == "private-" \o nodeId \o ".pfx"

\* const privatePfxFile = path.join(keysDir, `private-${nodeId}.pfx`)
PrivatePfxFile(nodeId) == PathJoin(KeysDir, PrivatePfxName(nodeId))

\* const publicPfxFile = path.join(keysDir, 'public.pfx')
PublicPfxFile == PathJoin(KeysDir, "public.pfx")

\* a slip: the alias leaves the node out
PfxAlias_noNode(keyPrefix, nodeId) == keyPrefix

\* const alias = `${keyPrefix}-${nodeId}`
PfxAlias(keyPrefix, nodeId) == keyPrefix \o "-" \o nodeId

\* the node an alias of the public keystore belongs to
AliasesOf(nodeId) ==
  {PfxAlias(k, nodeId) : k \in {SIGNING_KEY_PREFIX, AGREEMENT_KEY_PREFIX, ENCRYPTION_KEY_PREFIX}}

\* a slip: the file looked for is public.pfx
PrivatePfxExists_public(files, nodeId) == Exists(files, PublicPfxFile)

\* if (fs.existsSync(privatePfxFile)) of generatePrivatePfxKeys
PrivatePfxExists(files, nodeId) == Exists(files, PrivatePfxFile(nodeId))

\* a slip: the temporary keystore starts empty whatever public.pfx holds
CopyPublicToTmp_skip(files, tmp) == tmp

\* if (fs.existsSync(publicPfxFile)) fs.cpSync(publicPfxFile, tmpPublicPfxFile)
CopyPublicToTmp(files, tmp) ==
  IF Exists(files, PublicPfxFile) THEN WriteFile(tmp, PUBLIC_PFX, files[PublicPfxFile]) ELSE tmp

\* the keystore a keytool command is given: the file's, or a new one
StoreAt(tmp, path) == IF Exists(tmp, path) THEN tmp[path] ELSE NoEntries

\* the keys generated after the signing key, in the order of the loop
SignedKeyPrefixes == <<AGREEMENT_KEY_PREFIX, ENCRYPTION_KEY_PREFIX>>

\* a slip: the encryption certificate is left out
PublicKeyPrefixes_noEncryption == <<SIGNING_KEY_PREFIX, AGREEMENT_KEY_PREFIX>>

\* the certificates exported to the public keystore, in the order of the loop
PublicKeyPrefixes == <<SIGNING_KEY_PREFIX, AGREEMENT_KEY_PREFIX, ENCRYPTION_KEY_PREFIX>>

\* the files of generatePrivatePfxKeys in its temporary directory
CertReqFile(nodeId, keyPrefix) == nodeId \o "-cert-req-" \o keyPrefix \o ".pfx"

SignedCertFile(nodeId, keyPrefix) == nodeId \o "-signed-cert-" \o keyPrefix \o ".pfx"

\* the file of updatePublicPfxKey in its temporary directory
ExportedCertFile(nodeId, keyPrefix) == nodeId \o "-cert-" \o keyPrefix \o ".pfx"

\* the temporary directory after keytool.genKeyPair for the key of keyPrefix,
\* made by call id
TmpGenKeyPair(tmp, nodeId, keyPrefix, id) ==
  LET file  == PrivatePfxName(nodeId)
      alias == PfxAlias(keyPrefix, nodeId)
  IN WriteFile(tmp, file,
               KeytoolGenKeyPair(StoreAt(tmp, file), alias, "cn=" \o alias, <<id, alias>>))

\* ... after keytool.certReq
TmpCertReq(tmp, nodeId, keyPrefix) ==
  WriteFile(tmp, CertReqFile(nodeId, keyPrefix),
            KeytoolCertReq(tmp[PrivatePfxName(nodeId)], PfxAlias(keyPrefix, nodeId)))

\* ... after keytool.genCert, signed with the signing alias
TmpGenCert(tmp, nodeId, keyPrefix) ==
  WriteFile(tmp, SignedCertFile(nodeId, keyPrefix),
            KeytoolGenCert(tmp[PrivatePfxName(nodeId)], PfxAlias(SIGNING_KEY_PREFIX, nodeId),
                           tmp[CertReqFile(nodeId, keyPrefix)]))

\* ... after keytool.importCert of the signed certificate
TmpImportSignedCert(tmp, nodeId, keyPrefix) ==
  WriteFile(tmp, PrivatePfxName(nodeId),
            KeytoolImportCert(tmp[PrivatePfxName(nodeId)], PfxAlias(keyPrefix, nodeId),
                              tmp[SignedCertFile(nodeId, keyPrefix)]))

\* private-<nodeId>.pfx as a complete generatePrivatePfxKeys call id leaves it
RECURSIVE TmpSignedKeys(_, _, _, _)
TmpSignedKeys(tmp, nodeId, id, k) ==
  IF k > Len(SignedKeyPrefixes) THEN tmp
  ELSE TmpSignedKeys(
         TmpImportSignedCert(
           TmpGenCert(
             TmpCertReq(TmpGenKeyPair(tmp, nodeId, SignedKeyPrefixes[k], id),
                        nodeId, SignedKeyPrefixes[k]),
             nodeId, SignedKeyPrefixes[k]),
           nodeId, SignedKeyPrefixes[k]),
         nodeId, id, k + 1)

GeneratedPrivatePfx(nodeId, id) ==
  TmpSignedKeys(TmpGenKeyPair(NoFiles, nodeId, SIGNING_KEY_PREFIX, id), nodeId, id, 1)
    [PrivatePfxName(nodeId)]

Idle == [at |-> "idle", node |-> 0, key |-> 0]
Done == [at |-> "done", node |-> 0, key |-> 0]
At(step, node, key) == [at |-> step, node |-> node, key |-> key]

NoCall == [op |-> "", id |-> 0, nodeIds |-> <<>>, concurrent |-> FALSE, before |-> NoFiles]

Running(p) == pc[p].at \notin {"idle", "done"}

\* no call is in progress; keysDir holds no PKCS12 file
InitPfx ==
  /\ pfxFiles = NoFiles
  /\ tmpFiles = [p \in Invocations |-> NoFiles]
  /\ pc = [p \in Invocations |-> Idle]
  /\ call = [p \in Invocations |-> NoCall]
  /\ ret = [p \in Invocations |-> Nothing]
  /\ ktLog = [p \in Invocations |-> <<>>]
  /\ calls = 0

\* no call is in progress; keysDir holds the private-<nodeId>.pfx files an
\* earlier run generated for some of the nodes
InitPfxKeys ==
  /\ \E generated \in SUBSET Nodes :
       pfxFiles = [f \in {PrivatePfxFile(n) : n \in generated} |->
                     GeneratedPrivatePfx(CHOOSE n \in generated : PrivatePfxFile(n) = f, 0)]
  /\ tmpFiles = [p \in Invocations |-> NoFiles]
  /\ pc = [p \in Invocations |-> Idle]
  /\ call = [p \in Invocations |-> NoCall]
  /\ ret = [p \in Invocations |-> Nothing]
  /\ ktLog = [p \in Invocations |-> <<>>]
  /\ calls = 0

\* a call starts: the invocations in progress are marked as concurrent with it
Started(p, op, nodeIdList, position) ==
  /\ calls < MaxCalls
  /\ ~Running(p)
  /\ calls' = calls + 1
  /\ call' = [q \in Invocations |->
                IF q = p
                THEN [op |-> op, id |-> calls + 1, nodeIds |-> nodeIdList,
                      concurrent |-> \E r \in Invocations \ {p} : Running(r),
                      before |-> pfxFiles]
                ELSE IF Running(q) THEN [call[q] EXCEPT !.concurrent = TRUE]
                ELSE call[q]]
  /\ pc' = [pc EXCEPT ![p] = position]
  /\ ktLog' = [ktLog EXCEPT ![p] = <<>>]

\* the keytool command of invocation p has run
Ran(p, command, position) ==
  /\ ktLog' = [ktLog EXCEPT ![p] = Append(@, command)]
  /\ pc' = [pc EXCEPT ![p] = position]
  /\ UNCHANGED <<call, calls>>

Returned(path) == [ok |-> TRUE, path |-> path]

\* the node lists updatePublicPfxKey is called with
NodeIdLists ==
  {l \in UNION {[1..m -> Nodes] : m \in 1..Cardinality(Nodes)} : NoDuplicates(l)}

\* generatePrivatePfxKeys(keytool, nodeId, keysDir), up to the first keytool
\* command: an existing private-<nodeId>.pfx is returned as it is
GenCall(p, n) ==
  LET exists == PrivatePfxExists(pfxFiles, n) IN
    /\ Started(p, "generatePrivatePfxKeys", <<n>>,
               IF exists THEN Done ELSE At("genKeyPair", 1, 0))
    /\ tmpFiles' = [tmpFiles EXCEPT ![p] = NoFiles]
    /\ ret' = [ret EXCEPT ![p] = IF exists THEN Returned(PrivatePfxFile(n)) ELSE Nothing]
    /\ UNCHANGED pfxFiles

\* await keytool.genKeyPair(`-alias ${signedKeyAlias}`, ...): the signing key
GenKeyPairSigning(p) ==
  /\ pc[p].at = "genKeyPair" /\ pc[p].key = 0
  /\ tmpFiles' = [tmpFiles EXCEPT ![p] =
       TmpGenKeyPair(@, call[p].nodeIds[1], SIGNING_KEY_PREFIX, call[p].id)]
  /\ Ran(p, <<"genKeyPair", SIGNING_KEY_PREFIX>>, At("genKeyPair", 1, 1))
  /\ UNCHANGED <<pfxFiles, ret>>

\* await keytool.genKeyPair(`-alias ${alias}`, ...): the agreement or encryption key
GenKeyPair(p) ==
  /\ pc[p].at = "genKeyPair" /\ pc[p].key > 0
  /\ tmpFiles' = [tmpFiles EXCEPT ![p] =
       TmpGenKeyPair(@, call[p].nodeIds[1], SignedKeyPrefixes[pc[p].key], call[p].id)]
  /\ Ran(p, <<"genKeyPair", SignedKeyPrefixes[pc[p].key]>>, At("certReq", 1, pc[p].key))
  /\ UNCHANGED <<pfxFiles, ret>>

\* await keytool.certReq(`-alias ${alias}`, ..., `-file "${certReqFile}"`)
CertReq(p) ==
  /\ pc[p].at = "certReq"
  /\ tmpFiles' = [tmpFiles EXCEPT ![p] =
       TmpCertReq(@, call[p].nodeIds[1], SignedKeyPrefixes[pc[p].key])]
  /\ Ran(p, <<"certReq", SignedKeyPrefixes[pc[p].key]>>, At("genCert", 1, pc[p].key))
  /\ UNCHANGED <<pfxFiles, ret>>

\* await keytool.genCert(`-alias ${signedKeyAlias}`, ..., `-infile "${certReqFile}"`,
\* `-outfile "${certFile}"`)
GenCert(p) ==
  /\ pc[p].at = "genCert"
  /\ tmpFiles' = [tmpFiles EXCEPT ![p] =
       TmpGenCert(@, call[p].nodeIds[1], SignedKeyPrefixes[pc[p].key])]
  /\ Ran(p, <<"genCert", SignedKeyPrefixes[pc[p].key]>>, At("importCert", 1, pc[p].key))
  /\ UNCHANGED <<pfxFiles, ret>>

\* a slip: the file is copied once the first signed key is imported
ImportSignedCert_once(p) ==
  /\ pc[p].at = "importCert"
  /\ tmpFiles' = [tmpFiles EXCEPT ![p] =
       TmpImportSignedCert(@, call[p].nodeIds[1], SignedKeyPrefixes[pc[p].key])]
  /\ Ran(p, <<"importCert", SignedKeyPrefixes[pc[p].key]>>, At("copyPrivate", 1, 0))
  /\ UNCHANGED <<pfxFiles, ret>>

\* await keytool.importCert(`-alias ${alias}`, ..., `-file "${certFile}"`)
ImportSignedCert(p) ==
  /\ pc[p].at = "importCert"
  /\ tmpFiles' = [tmpFiles EXCEPT ![p] =
       TmpImportSignedCert(@, call[p].nodeIds[1], SignedKeyPrefixes[pc[p].key])]
  /\ Ran(p, <<"importCert", SignedKeyPrefixes[pc[p].key]>>,
         IF pc[p].key < Len(SignedKeyPrefixes)
         THEN At("genKeyPair", 1, pc[p].key + 1)
         ELSE At("copyPrivate", 1, 0))
  /\ UNCHANGED <<pfxFiles, ret>>

\* fs.cpSync(tmpPrivatePfxFile, privatePfxFile); return privatePfxFile
CopyPrivatePfx(p) ==
  /\ pc[p].at = "copyPrivate"
  /\ LET nodeId == call[p].nodeIds[1] IN
       /\ pfxFiles' = WriteFile(pfxFiles, PrivatePfxFile(nodeId), tmpFiles[p][PrivatePfxName(nodeId)])
       /\ ret' = [ret EXCEPT ![p] = Returned(PrivatePfxFile(nodeId))]
  /\ pc' = [pc EXCEPT ![p] = Done]
  /\ UNCHANGED <<tmpFiles, call, ktLog, calls>>

\* updatePublicPfxKey(keytool, nodeIds, keysDir), up to the first keytool
\* command: public.pfx is copied to the temporary directory, and the first
\* node's private-<nodeId>.pfx must be there
UpdateCall(p, ids) ==
  LET exists == Exists(pfxFiles, PrivatePfxFile(ids[1])) IN
    /\ Started(p, "updatePublicPfxKey", ids,
               IF exists THEN At("exportCert", 1, 1) ELSE Done)
    /\ tmpFiles' = [tmpFiles EXCEPT ![p] = CopyPublicToTmp(pfxFiles, NoFiles)]
    /\ ret' = [ret EXCEPT ![p] = IF exists THEN Nothing ELSE Thrown("FullstackTestingError")]
    /\ UNCHANGED pfxFiles

\* await keytool.exportCert(`-alias ${alias}`, `-keystore "${privatePfxFile}"`, ...,
\* `-file "${certFile}"`); the command fails when the keystore or the alias is missing
ExportCert(p) ==
  /\ pc[p].at = "exportCert"
  /\ LET nodeId    == call[p].nodeIds[pc[p].node]
         keyPrefix == PublicKeyPrefixes[pc[p].key]
         alias     == PfxAlias(keyPrefix, nodeId)
         certFile  == ExportedCertFile(nodeId, keyPrefix)
         readable  == /\ Exists(pfxFiles, PrivatePfxFile(nodeId))
                      /\ alias \in DOMAIN pfxFiles[PrivatePfxFile(nodeId)]
     IN /\ tmpFiles' = IF readable
                       THEN [tmpFiles EXCEPT ![p] =
                               WriteFile(@, certFile,
                                         KeytoolExportCert(pfxFiles[PrivatePfxFile(nodeId)], alias))]
                       ELSE tmpFiles
        /\ ret' = [ret EXCEPT ![p] = IF readable THEN @ ELSE Thrown("FullstackTestingError")]
        /\ Ran(p, <<"exportCert", keyPrefix>>,
               IF readable THEN At("importPublic", pc[p].node, pc[p].key) ELSE Done)
  /\ UNCHANGED pfxFiles

\* a slip: the certificate is imported into public.pfx of keysDir as well
ImportIntoTmp_inPlace(files, tmp, alias, certFile) ==
  [files |-> WriteFile(files, PublicPfxFile,
                       KeytoolImportCert(StoreAt(files, PublicPfxFile), alias, tmp[certFile])),
   tmp   |-> WriteFile(tmp, PUBLIC_PFX,
                       KeytoolImportCert(StoreAt(tmp, PUBLIC_PFX), alias, tmp[certFile]))]

\* `-keystore "${tmpPublicPfxFile}"`: the certificate is imported into the
\* copy of the temporary directory, keysDir is left alone
ImportIntoTmp(files, tmp, alias, certFile) ==
  [files |-> files,
   tmp   |-> WriteFile(tmp, PUBLIC_PFX,
                       KeytoolImportCert(StoreAt(tmp, PUBLIC_PFX), alias, tmp[certFile]))]

\* await keytool.importCert(`-alias ${alias}`, `-keystore "${tmpPublicPfxFile}"`, ...,
\* '-noprompt', `-file "${certFile}"`), and on to the next certificate or node,
\* whose private-<nodeId>.pfx must be there
ImportCert(p) ==
  /\ pc[p].at = "importPublic"
  /\ LET nodeId    == call[p].nodeIds[pc[p].node]
         keyPrefix == PublicKeyPrefixes[pc[p].key]
         alias     == PfxAlias(keyPrefix, nodeId)
         certFile  == ExportedCertFile(nodeId, keyPrefix)
         lastKey   == pc[p].key = Len(PublicKeyPrefixes)
         lastNode  == pc[p].node = Len(call[p].nodeIds)
         missing   == /\ lastKey /\ ~lastNode
                      /\ ~Exists(pfxFiles, PrivatePfxFile(call[p].nodeIds[pc[p].node + 1]))
         imported  == ImportIntoTmp(pfxFiles, tmpFiles[p], alias, certFile)
     IN /\ tmpFiles' = [tmpFiles EXCEPT ![p] = imported.tmp]
        /\ pfxFiles' = imported.files
        /\ ret' = [ret EXCEPT ![p] = IF missing THEN Thrown("FullstackTestingError") ELSE @]
        /\ Ran(p, <<"importCert", keyPrefix>>,
               IF ~lastKey THEN At("exportCert", pc[p].node, pc[p].key + 1)
               ELSE IF lastNode THEN At("copyPublic", 0, 0)
               ELSE IF missing THEN Done
               ELSE At("exportCert", pc[p].node + 1, 1))

\* fs.cpSync(tmpPublicPfxFile, publicPfxFile); return publicPfxFile
CopyPublicPfx(p) ==
  /\ pc[p].at = "copyPublic"
  /\ pfxFiles' = WriteFile(pfxFiles, PublicPfxFile, tmpFiles[p][PUBLIC_PFX])
  /\ ret' = [ret EXCEPT ![p] = Returned(PublicPfxFile)]
  /\ pc' = [pc EXCEPT ![p] = Done]
  /\ UNCHANGED <<tmpFiles, call, ktLog, calls>>

\* a Date in local time; month is the calendar month, 1 to 12
Date(year, month, date, hours, minutes, seconds) ==
  [year |-> year, month |-> month, date |-> date,
   hours |-> hours, minutes |-> minutes, seconds |-> seconds]

\* Date.prototype.getMonth(): 0 for January to 11 for December
getMonth(curDate) == curDate.month - 1

\* n.toString().padStart(2, '0')
PadStart2(n) == IF n < 10 THEN "0" \o ToString(n) ELSE ToString(n)

\* util.format('%s%s%s_%s%s%s', ...) of createBackupDir
FormatDateDir(curDate) ==
  ToString(curDate.year) \o PadStart2(getMonth(curDate)) \o PadStart2(curDate.date)
    \o "_" \o PadStart2(curDate.hours) \o PadStart2(curDate.minutes)
    \o PadStart2(curDate.seconds)

\* createBackupDir(destDir, prefix, curDate) where the directories dirs exist:
\* the directory is made unless it is there
createBackupDir(destDir, prefix, curDate, dirs) ==
  LET backupDir == PathJoin(PathJoin(destDir, prefix), FormatDateDir(curDate)) IN
    [backupDir |-> backupDir, dirs |-> dirs \cup {backupDir}]

\* the date of the backups of the key regeneration sequence: 1 February 2024
CurDate == Date(2024, 2, 1, 0, 0, 0)

(***************************************************************************)
(* helpers.mjs: makeBackup and backupOldPfxKeys.  The backup directory is  *)
(* a directory of keysDir, so its files are files of pfxFiles.             *)
(***************************************************************************)
\* the directory name createBackupDir makes of the date of the run
DateDir == FormatDateDir(CurDate)

\* const backupDir = path.join(destDir, prefix, dateDir)
BackupDirPath(destDir, prefix) == PathJoin(PathJoin(destDir, prefix), DateDir)

\* a slip: the source is not removed although removeOld is set
RemoveBackedUp_keep(files, srcPath, removeOld) == files

\* if (removeOld) fs.rmSync(srcPath)
RemoveBackedUp(files, srcPath, removeOld) ==
  IF removeOld THEN RemoveFile(files, srcPath) ELSE files

\* makeBackup(fileMap, removeOld), from entry i of the Map on
RECURSIVE makeBackup(_, _, _, _)
makeBackup(fileMap, removeOld, files, i) ==
  IF i > Len(fileMap) THEN files
  ELSE LET srcPath  == fileMap[i].key
           destPath == fileMap[i].value
       IN makeBackup(fileMap, removeOld,
                     IF Exists(files, srcPath)
                     THEN RemoveBackedUp(WriteFile(files, destPath, files[srcPath]),
                                         srcPath, removeOld)
                     ELSE files,
                     i + 1)

\* for (const nodeId of nodeIds) fileMap.set(srcPath, destPath)
RECURSIVE PfxFileMap(_, _, _, _, _)
PfxFileMap(nodeIds, keysDir, backupDir, i, fileMap) ==
  IF i > Len(nodeIds) THEN fileMap
  ELSE PfxFileMap(nodeIds, keysDir, backupDir, i + 1,
                  MapSet(fileMap, PathJoin(keysDir, PrivatePfxName(nodeIds[i])),
                         PathJoin(backupDir, PrivatePfxName(nodeIds[i]))))

\* backupOldPfxKeys(nodeIds, keysDir): public.pfx is part of the backup, and
\* is removed from keysDir with the private files
backupOldPfxKeys(nodeIds, keysDir, files) ==
  LET backupDir == BackupDirPath(keysDir, "unused-gossip-pfx")
      fileMap   == MapSet(PfxFileMap(nodeIds, keysDir, backupDir, 1, <<>>),
                          PathJoin(keysDir, "public.pfx"), PathJoin(backupDir, "public.pfx"))
  IN [files |-> makeBackup(fileMap, TRUE, files, 1), backupDir |-> backupDir]

(***************************************************************************)
(* The key regeneration sequence for the nodes of a list: Backup old       *)
(* files, Generate private-<nodeId>.pfx for every node, Generate           *)
(* public.pfx file.  The calls are made one after the other by invocation  *)
(* "i1", which also calls either method by itself; any keytool command may *)
(* fail, which ends its call with an error.                                *)
(***************************************************************************)
Caller == "i1"

\* public.pfx with the certificates of the nodes of the list from node i on,
\* as updatePublicPfxKey imports them
RECURSIVE PublicPfxWith(_, _, _, _, _)
PublicPfxWith(store, files, nodeIdList, i, k) ==
  IF i > Len(nodeIdList) THEN store
  ELSE IF k > Len(PublicKeyPrefixes) THEN PublicPfxWith(store, files, nodeIdList, i + 1, 1)
  ELSE LET alias == PfxAlias(PublicKeyPrefixes[k], nodeIdList[i])
       IN PublicPfxWith(
            KeytoolImportCert(store, alias,
                              KeytoolExportCert(files[PrivatePfxFile(nodeIdList[i])], alias)),
            files, nodeIdList, i, k + 1)

\* keysDir as an earlier run of the sequence for the nodes of a list left it
KeysDirOf(nodeIdList) ==
  LET private == [f \in {PrivatePfxFile(nodeIdList[i]) : i \in 1..Len(nodeIdList)} |->
                    GeneratedPrivatePfx(
                      nodeIdList[CHOOSE i \in 1..Len(nodeIdList) : PrivatePfxFile(nodeIdList[i]) = f],
                      0)]
  IN IF nodeIdList = <<>> THEN NoFiles
     ELSE WriteFile(private, PublicPfxFile, PublicPfxWith(NoEntries, private, nodeIdList, 1, 1))

InitKeysDir ==
  /\ \E nodeIdList \in NodeIdLists \cup {<<>>} : pfxFiles = KeysDirOf(nodeIdList)
  /\ tmpFiles = [p \in Invocations |-> NoFiles]
  /\ pc = [p \in Invocations |-> Idle]
  /\ call = [p \in Invocations |-> NoCall]
  /\ ret = [p \in Invocations |-> Nothing]
  /\ ktLog = [p \in Invocations |-> <<>>]
  /\ calls = 0

CmdAt(position, node) == [cmd EXCEPT !.at = position, !.node = node]

CmdFailed(step, cause) == [cmd EXCEPT !.at = "failed", !.failed = step, !.cause = cause]

\* Backup old files: the sequence starts for the nodes of the list
KeysBackup(nodeIdList) ==
  /\ cmd.at \in {"idle", "done", "failed"}
  /\ ~Running(Caller)
  /\ calls + Len(nodeIdList) + 1 <= MaxCalls
  /\ pfxFiles' = backupOldPfxKeys(nodeIdList, KeysDir, pfxFiles).files
  /\ cmd' = [name |-> "keys", nodeIds |-> nodeIdList, at |-> "generate", node |-> 1,
             failed |-> "", cause |-> "", before |-> pfxFiles]
  /\ steps' = <<<<"Backup old files", "">>>>
  /\ UNCHANGED <<tmpFiles, pc, call, ret, ktLog, calls>>

\* Generate private-<nodeId>.pfx for node: <nodeId>
KeysGenerate ==
  /\ cmd.at = "generate"
  /\ GenCall(Caller, cmd.nodeIds[cmd.node])
  /\ cmd' = CmdAt("generating", cmd.node)
  /\ steps' = Append(steps, <<"Generate private pfx", cmd.nodeIds[cmd.node]>>)

\* generatePrivatePfxKeys has returned or thrown
KeysGenerated ==
  /\ cmd.at = "generating"
  /\ pc[Caller] = Done
  /\ cmd' = IF ~ret[Caller].ok THEN CmdFailed(steps[Len(steps)], ret[Caller].error)
            ELSE IF cmd.node < Len(cmd.nodeIds) THEN CmdAt("generate", cmd.node + 1)
            ELSE CmdAt("update", 0)
  /\ UNCHANGED <<pfxVars, steps>>

\* Generate public.pfx file
KeysUpdate ==
  /\ cmd.at = "update"
  /\ UpdateCall(Caller, cmd.nodeIds)
  /\ cmd' = CmdAt("updating", 0)
  /\ steps' = Append(steps, <<"Generate public.pfx file", "">>)

\* updatePublicPfxKey has returned or thrown
KeysUpdated ==
  /\ cmd.at = "updating"
  /\ pc[Caller] = Done
  /\ cmd' = IF ~ret[Caller].ok THEN CmdFailed(steps[Len(steps)], ret[Caller].error)
            ELSE CmdAt("done", 0)
  /\ UNCHANGED <<pfxVars, steps>>

\* no sequence is in progress: the caller may call either method by itself
NoSequence == cmd.at \in {"idle", "done", "failed"}

\* a keytool command of invocation p exits with an error: its call throws
KeytoolFails(p) ==
  /\ pc[p].at \in {"genKeyPair", "certReq", "genCert", "importCert", "exportCert", "importPublic"}
  /\ ret' = [ret EXCEPT ![p] = Thrown("FullstackTestingError")]
  /\ Ran(p, <<"failed", pc[p].at>>, Done)
  /\ UNCHANGED <<pfxFiles, tmpFiles>>

(***************************************************************************)
(* Private key files of any content: convertPemToPrivateKey, and           *)
(* loadNodeKey next to a certificate file, called on a file of up to       *)
(* MaxBlocks PEM blocks.                                                   *)
(***************************************************************************)
KeyAlgos == {RoleAlgo(role) : role \in Roles}

\* the PEM blocks of the files: private keys 1 and 2 of either algorithm,
\* and a certificate
PemBlocks ==
  {convertPrivateKeyToPem(PrivateKey(k, algo, TRUE)) : k \in 1..2, algo \in KeyAlgos}
    \cup {CertToPem(generateSigningKey("node1", 1).certificate)}

PemTexts == UNION {[1..m -> PemBlocks] : m \in 0..MaxBlocks}

\* await this.convertPemToPrivateKey(pemStr, algo)
CallConvertPemToPrivateKey(pemStr, algo) ==
  /\ fnArgs = <<>>
  /\ fnArgs' = [fn |-> "convertPemToPrivateKey", pemStr |-> pemStr, algo |-> algo]
  /\ fnResult' = convertPemToPrivateKey(pemStr, algo)

\* await this.loadNodeKey(nodeId, keysDir, algo, nodeKeyFiles): the private
\* key file holds pemStr, the certificate file a signing certificate
CallLoadNodeKey(pemStr, role) ==
  LET nodeKeyFiles == NodeKeyFiles("node1", role)
      files == WriteFile(WriteFile(NoFiles, nodeKeyFiles.privateKeyFile, pemStr),
                         nodeKeyFiles.certificateFile,
                         <<CertToPem(generateSigningKey("node1", 1).certificate)>>)
  IN /\ fnArgs = <<>>
     /\ fnArgs' = [fn |-> "loadNodeKey", pemStr |-> pemStr, algo |-> RoleAlgo(role)]
     /\ fnResult' = loadNodeKey(files, "node1", RoleAlgo(role), nodeKeyFiles)

(***************************************************************************)
(* The task pipeline and the node lifecycle operations (commands/node.mjs).*)
(* An operation is an ordered list of named steps; a step has one task, or *)
(* one task per node, and ends when all its tasks have succeeded.          *)
(***************************************************************************)
\* tasks of one step that run at the same time
Concurrency == 2

LifecycleOps == {"add", "update", "delete"}

SetOf(list) == {list[i] : i \in 1..Len(list)}

PipelineStep(name, kind, nodes) == [name |-> name, kind |-> kind, nodes |-> nodes]

Task(step, name, node, outcome, cause) ==
  [step |-> step, name |-> name, node |-> node, outcome |-> outcome, cause |-> cause,
   attempts |-> 0]

\* the node list the operation leaves
NodesAfter(op, target, nodeIdList) ==
  CASE op = "add"    -> IF InList(nodeIdList, target) THEN nodeIdList
                        ELSE Append(nodeIdList, target)
    [] op = "delete" -> Without(nodeIdList, target)
    [] OTHER         -> nodeIdList

\* a slip: every operation generates the TLS key of its node
KeySteps_always(op, target) ==
  <<PipelineStep("Generate gRPC TLS keys", "tls", {target})>>

\* the steps that generate keys: Add generates the gossip keys and the TLS
\* key of the new node, Update the TLS key of its node, Delete none
KeySteps(op, target) ==
  CASE op = "add"    -> <<PipelineStep("Generate gossip keys", "gossip", {target}),
                          PipelineStep("Generate gRPC TLS keys", "tls", {target})>>
    [] op = "update" -> <<PipelineStep("Generate gRPC TLS keys", "tls", {target})>>
    [] OTHER         -> <<>>

\* a slip: the network is started before the files are copied to its nodes
SetupSteps_startFirst(nodes) ==
  <<PipelineStep("Copy Gossip keys to staging", "collect", {""}),
    PipelineStep("Copy gRPC TLS keys to staging", "collect", {""}),
    PipelineStep("Prepare config.txt for the network", "render", {""}),
    PipelineStep("Freeze network", "freeze", {""}),
    PipelineStep("Start node", "start", nodes),
    PipelineStep("Copy configuration files", "stage", nodes)>>

\* the key files are copied to the local staging directory and config.txt is
\* prepared; then the network is frozen, the files are copied to each node
\* and the nodes are started
SetupSteps(nodes) ==
  <<PipelineStep("Copy Gossip keys to staging", "collect", {""}),
    PipelineStep("Copy gRPC TLS keys to staging", "collect", {""}),
    PipelineStep("Prepare config.txt for the network", "render", {""}),
    PipelineStep("Freeze network", "freeze", {""}),
    PipelineStep("Copy configuration files", "stage", nodes),
    PipelineStep("Start node", "start", nodes)>>

\* once all nodes are started each is polled until it is ACTIVE, and then
\* its proxy until it is healthy
StartSteps(nodes) ==
  <<PipelineStep("Check node", "check", nodes),
    PipelineStep("Check proxy for node", "check", nodes)>>

\* a slip: a check polls on for as long as it takes
PollAgain_always(attempts) == TRUE

\* a check that has not seen what it waits for polls again unless it has
\* made all its attempts
PollAgain(attempts) == attempts < MaxAttempts

Pipeline(op, target, nodeIdList) ==
  LET nodes == SetOf(NodesAfter(op, target, nodeIdList)) IN
    <<PipelineStep("Validate node", "validate", {target})>>
      \o KeySteps(op, target) \o SetupSteps(nodes) \o StartSteps(nodes)

\* a slip: any name passes
Valid_any(op, target) == TRUE

\* the check the first step makes
Valid(op, target) ==
  CASE op = "add"    -> ~InList(nodeIDs, target)
    [] op = "update" -> InList(nodeIDs, target)
    [] OTHER         -> InList(nodeIDs, target) /\ Len(nodeIDs) > 1

\* the error a failing task of a kind throws; "" for the kinds that do not fail
FailureOf(kind) ==
  CASE kind = "validate"          -> "ValidationError"
    [] kind \in {"gossip", "tls"} -> "KeyGenerationError"
    [] kind \in {"stage", "start"} -> "RemoteStagingError"
    [] kind = "check"             -> "NodeActivationTimeoutError"
    [] OTHER                      -> ""

\* keysDir with the signing and agreement key files of a node, generated anew
GossipKeysStored(files, nodeId, k) ==
  LET signingKey == generateSigningKey(nodeId, 3 * k + 1)
      agreementKey == generateAgreementKey(nodeId, signingKey, 3 * k + 2)
  IN storeNodeKey(storeNodeKey(files, nodeId, signingKey, NodeKeyFiles(nodeId, "signing")),
                  nodeId, agreementKey, NodeKeyFiles(nodeId, "agreement"))

\* keysDir with the TLS key files of a node, generated anew
TlsKeyStored(files, nodeId, k) ==
  storeNodeKey(files, nodeId, generateGrpcTLSKey(nodeId, 3 * k + 3), NodeKeyFiles(nodeId, "tls"))

RECURSIVE AllKeysStored(_, _, _)
AllKeysStored(files, nodeIdList, i) ==
  IF i > Len(nodeIdList) THEN files
  ELSE AllKeysStored(TlsKeyStored(GossipKeysStored(files, nodeIdList[i], 0), nodeIdList[i], 0),
                     nodeIdList, i + 1)

\* the key files of a node are in keysDir
HasKeys(files, nodeId) ==
  \A role \in Roles :
    /\ Exists(files, NodeKeyFiles(nodeId, role).privateKeyFile)
    /\ Exists(files, NodeKeyFiles(nodeId, role).certificateFile)

\* a network of two or three nodes runs: the keys of its nodes are in
\* keysDir, and each node has the topology
InitLifecycle ==
  /\ \E m \in 2..3 : nodeIDs = SubSeq(<<"node1", "node2", "node3">>, 1, m)
  /\ topology = getNodeAccountMap(nodeIDs)
  /\ mapArg = <<>>
  /\ accountMap = <<>>
  /\ pemFiles = AllKeysStored(NoFiles, nodeIDs, 1)
  /\ held = Held("", "", Nothing)
  /\ nextKey = 1
  /\ lastCall = Called("", "", "", Nothing, Nothing)
  /\ lastStored = [f \in Nodes \X Roles |-> [nodeKey |-> Nothing, times |-> 0]]
  /\ cmd = [name |-> "", nodeIds |-> <<>>, at |-> "idle", node |-> "",
            failed |-> "", cause |-> "", before |-> <<>>,
            step |-> 0, count |-> 0, pipeline |-> <<>>, frozen |-> FALSE,
            staged |-> [n \in NodeNames |-> IF InList(nodeIDs, n) THEN topology ELSE <<>>]]
  /\ steps = {}

InFlight == {t \in steps : t.outcome = "started"}

\* the tasks, with task t settled
Settle(t, outcome, cause) ==
  (steps \ {t}) \cup {[t EXCEPT !.outcome = outcome, !.cause = cause]}

\* a slip: a step ends with the first of its tasks that succeeds
StepEnded_firstTask(tasks, step) ==
  \E u \in tasks : u.step = step /\ u.outcome = "succeeded"

\* a step has ended when each of its tasks has succeeded
StepEnded(tasks, step) ==
  \A n \in cmd.pipeline[step].nodes :
    \E u \in tasks : u.step = step /\ u.node = n /\ u.outcome = "succeeded"

\* what an operation finds
Found == [pemFiles |-> pemFiles, nodeIDs |-> nodeIDs, topology |-> topology,
          staged |-> cmd.staged]

\* an operation is started once the one before it has ended
LifecycleStart(op, target) ==
  /\ cmd.at \in {"idle", "done", "failed"}
  /\ InFlight = {}
  /\ cmd.count < MaxOps
  /\ op = "add" => (Len(nodeIDs) < MaxNodes \/ InList(nodeIDs, target))
  /\ cmd' = [cmd EXCEPT !.name = op, !.nodeIds = <<target>>, !.at = "running", !.node = "",
                        !.failed = "", !.cause = "", !.before = Found,
                        !.step = 1, !.count = @ + 1,
                        !.pipeline = Pipeline(op, target, nodeIDs)]
  /\ steps' = {}
  /\ UNCHANGED <<pemVars, topoVars>>

\* a task of the current step is started
TaskStart(node) ==
  /\ cmd.at = "running"
  /\ node \in cmd.pipeline[cmd.step].nodes
  /\ ~\E t \in steps : t.step = cmd.step /\ t.node = node
  /\ Cardinality(InFlight) < Concurrency
  /\ steps' = steps \cup {Task(cmd.step, cmd.pipeline[cmd.step].name, node, "started", "")}
  /\ UNCHANGED <<cmd, pemVars, topoVars>>

\* a task succeeds and has its effect; the step ends with its last task, and
\* the operation with its last step.  A check that succeeds returns, and its
\* count of attempts goes with it.
TaskSucceed(node) ==
  \E t \in InFlight :
    LET step == cmd.pipeline[t.step]
        target == cmd.nodeIds[1]
        settled == (steps \ {t}) \cup {[t EXCEPT !.outcome = "succeeded", !.attempts = 0]}
        ended == cmd.at = "running" /\ StepEnded(settled, t.step)
    IN /\ t.node = node
       /\ step.kind = "validate" => Valid(cmd.name, target)
       /\ step.kind = "check" => t.attempts < MaxAttempts
       /\ steps' = settled
       /\ pemFiles' = CASE step.kind = "gossip" -> GossipKeysStored(pemFiles, node, cmd.count)
                        [] step.kind = "tls"    -> TlsKeyStored(pemFiles, node, cmd.count)
                        [] OTHER                -> pemFiles
       /\ IF step.kind = "render"
          THEN CASE cmd.name = "add"    -> AddNode(target)
                 [] cmd.name = "update" -> UpdateNode(target)
                 [] OTHER               -> DeleteNode(target)
          ELSE UNCHANGED topoVars
       /\ cmd' = [cmd EXCEPT
                    !.frozen = IF step.kind = "freeze" THEN TRUE
                               ELSE IF step.kind = "start" THEN FALSE ELSE @,
                    !.staged = IF step.kind = "stage" THEN [@ EXCEPT ![node] = topology] ELSE @,
                    !.step = IF ended /\ t.step < Len(cmd.pipeline) THEN @ + 1 ELSE @,
                    !.at = IF ended /\ t.step = Len(cmd.pipeline) THEN "done" ELSE @]
       /\ UNCHANGED <<held, nextKey, lastCall, lastStored>>

\* a task fails: the pipeline halts and reports the step, the node and the
\* cause (PipelineStepError)
TaskFail(node) ==
  \E t \in InFlight :
    LET step == cmd.pipeline[t.step]
        cause == FailureOf(step.kind)
    IN /\ t.node = node
       /\ cause # ""
       /\ step.kind = "check" => ~PollAgain(t.attempts)
       /\ step.kind = "validate" => ~Valid(cmd.name, cmd.nodeIds[1])
       /\ steps' = Settle(t, "failed", cause)
       /\ cmd' = IF cmd.at = "running"
                 THEN [cmd EXCEPT !.at = "failed", !.failed = t.name, !.node = node,
                                  !.cause = cause]
                 ELSE cmd
       /\ UNCHANGED <<pemVars, topoVars>>

\* a health check polls and does not see what it waits for
TaskPoll(node) ==
  \E t \in InFlight :
    /\ t.node = node
    /\ cmd.pipeline[t.step].kind = "check"
    /\ PollAgain(t.attempts)
    /\ steps' = (steps \ {t}) \cup {[t EXCEPT !.attempts = @ + 1]}
    /\ UNCHANGED <<cmd, pemVars, topoVars>>

(***************************************************************************)
(* Helpers called by themselves (core/helpers.mjs): splitFlagInput,        *)
(* createBackupDir, makeBackup, backupOldPemKeys.  A string is a sequence  *)
(* of characters.                                                          *)
(***************************************************************************)
Chars == {"a", " ", ","}

Whitespace == {" "}

Strings == UNION {[1..m -> Chars] : m \in 0..MaxLen}

\* what is passed as input: a string, or a value that is not one
FlagInputs == {[type |-> "string", chars |-> c] : c \in Strings}
                \cup {[type |-> t, chars |-> <<>>] : t \in {"undefined", "number", "object"}}

\* String.prototype.split(separator), the segment cur being read from i on
RECURSIVE SplitFrom(_, _, _, _)
SplitFrom(chars, separator, i, cur) ==
  IF i > Len(chars) THEN <<cur>>
  ELSE IF chars[i] = separator THEN <<cur>> \o SplitFrom(chars, separator, i + 1, <<>>)
  ELSE SplitFrom(chars, separator, i + 1, Append(cur, chars[i]))

RECURSIVE TrimStart(_)
TrimStart(chars) ==
  IF chars # <<>> /\ Head(chars) \in Whitespace THEN TrimStart(Tail(chars)) ELSE chars

RECURSIVE TrimEnd(_)
TrimEnd(chars) ==
  IF chars # <<>> /\ chars[Len(chars)] \in Whitespace
  THEN TrimEnd(SubSeq(chars, 1, Len(chars) - 1)) ELSE chars

\* String.prototype.trim()
Trim(chars) == TrimEnd(TrimStart(chars))

\* if (s): the segment as split, not the trimmed item, is what is tested
\* (with the trimmed item tested instead, no empty item would be pushed)
Pushed(s, item) == s # <<>>

\* input.split(separator).forEach(s => { const item = s.trim(); if (s) items.push(item) })
RECURSIVE PushItems(_, _, _)
PushItems(segments, i, items) ==
  IF i > Len(segments) THEN items
  ELSE PushItems(segments, i + 1,
                 IF Pushed(segments[i], Trim(segments[i]))
                 THEN Append(items, Trim(segments[i])) ELSE items)

splitFlagInput(input, separator) ==
  IF input.type = "string"
  THEN [ok |-> TRUE, items |-> PushItems(SplitFrom(input.chars, separator, 1, <<>>), 1, <<>>)]
  ELSE Thrown("FullstackTestingError")

\* parseNodeIds(input)
parseNodeIds(input) == splitFlagInput(input, ",")

CallParseNodeIds(input) ==
  /\ fnArgs = <<>>
  /\ fnArgs' = [fn |-> "parseNodeIds", input |-> input]
  /\ fnResult' = parseNodeIds(input)

\* the dates createBackupDir is called with
Dates ==
  {Date(2024, month, date, hours, 5, seconds) :
     month \in {1, 9, 10, 12}, date \in {1, 31}, hours \in {0, 23}, seconds \in {0, 59}}

\* createBackupDir(destDir, prefix, curDate), called twice in a row when
\* again is set
CallCreateBackupDir(prefix, curDate, again) ==
  LET first == createBackupDir(KeysDir, prefix, curDate, {KeysDir})
      second == createBackupDir(KeysDir, prefix, curDate, first.dirs)
  IN /\ fnArgs = <<>>
     /\ fnArgs' = [fn |-> "createBackupDir", destDir |-> KeysDir, prefix |-> prefix,
                   curDate |-> curDate, again |-> again]
     /\ fnResult' = IF again THEN [second EXCEPT !.backupDir = <<first.backupDir, @>>]
                    ELSE [first EXCEPT !.backupDir = <<@>>]

\* the names of the files makeBackup is called for, and the Maps of them the
\* callers of makeBackup build: from a path of keysDir to that of the file of
\* the same name in the backup directory
BackupNames == {"f1", "f2", "f3"}

RECURSIVE NamedFileMap(_, _, _, _, _)
NamedFileMap(names, keysDir, backupDir, i, fileMap) ==
  IF i > Len(names) THEN fileMap
  ELSE NamedFileMap(names, keysDir, backupDir, i + 1,
                    MapSet(fileMap, PathJoin(keysDir, names[i]), PathJoin(backupDir, names[i])))

\* files of the given names, each with a content of its own
FilesNamed(dir, names, tag) ==
  [f \in {PathJoin(dir, n) : n \in names} |->
     tag \o (CHOOSE n \in names : PathJoin(dir, n) = f)]

\* makeBackup(fileMap, removeOld) where keysDir holds the files inKeysDir and
\* the backup directory the files inBackup
CallMakeBackup(names, removeOld, inKeysDir, inBackup) ==
  LET backupDir == BackupDirPath(KeysDir, "backup")
      fileMap == NamedFileMap(names, KeysDir, backupDir, 1, <<>>)
      files == FilesNamed(KeysDir, inKeysDir, "key of ") @@ FilesNamed(backupDir, inBackup, "old ")
  IN /\ fnArgs = <<>>
     /\ fnArgs' = [fn |-> "makeBackup", fileMap |-> fileMap, removeOld |-> removeOld,
                   files |-> files]
     /\ fnResult' = [ok |-> TRUE, files |-> makeBackup(fileMap, removeOld, files, 1)]

\* for (const nodeId of nodeIds) fileMap.set(srcPath, destPath), the file name
\* being Templates.renderGossipPemPrivateKeyFile(nodeId): the template takes
\* (prefix, nodeId), so nodeId is its prefix and its nodeId is undefined
RECURSIVE PemFileMap(_, _, _, _, _)
PemFileMap(nodeIds, keysDir, backupDir, i, fileMap) ==
  IF i > Len(nodeIds) THEN fileMap
  ELSE PemFileMap(nodeIds, keysDir, backupDir, i + 1,
                  MapSet(fileMap,
                         PathJoin(keysDir, renderGossipPemPrivateKeyFile(nodeIds[i], "undefined")),
                         PathJoin(backupDir, renderGossipPemPrivateKeyFile(nodeIds[i], "undefined"))))

\* backupOldPemKeys(nodeIds, keysDir)
backupOldPemKeys(nodeIds, keysDir, files) ==
  LET backupDir == BackupDirPath(keysDir, "unused-gossip-pem")
      fileMap   == PemFileMap(nodeIds, keysDir, backupDir, 1, <<>>)
  IN [files |-> makeBackup(fileMap, TRUE, files, 1), backupDir |-> backupDir]

\* backupOldPemKeys(nodeIds, keysDir) where keysDir holds the key files the
\* key manager stored for node1 and node2
CallBackupOldPemKeys(nodeIds) ==
  LET files == AllKeysStored(NoFiles, <<"node1", "node2">>, 1) IN
    /\ fnArgs = <<>>
    /\ fnArgs' = [fn |-> "backupOldPemKeys", nodeIds |-> nodeIds, files |-> files]
    /\ fnResult' = backupOldPemKeys(nodeIds, KeysDir, files)

(***************************************************************************)
(* The argument checks of storeNodeKey, loadNodeKey, generatePrivatePfxKeys *)
(* and updatePublicPfxKey.  A call is made with the set of its arguments   *)
(* that are missing (undefined, null or empty); the checks are made in the *)
(* order of the code, and the first that fails throws.                     *)
(***************************************************************************)
MissingArgument(message) ==
  [ok |-> FALSE, error |-> "MissingArgumentError", message |-> message]

StoreNodeKeyArguments ==
  {"nodeId", "nodeKey", "nodeKey.privateKey", "nodeKey.certificateChain", "keysDir",
   "nodeKeyFiles", "nodeKeyFiles.privateKeyFile", "nodeKeyFiles.certificateFile"}

LoadNodeKeyArguments ==
  {"nodeId", "keysDir", "algo",
   "nodeKeyFiles", "nodeKeyFiles.privateKeyFile", "nodeKeyFiles.certificateFile"}

\* keysDir exists: the directory of a keysDir that is given is there;
\* tmpDir is optional and defaults to getTmpDir()
PfxKeysArguments == {"keytool", "nodeId", "keysDir", "keysDir exists", "tmpDir"}

RequiredArguments(fn) ==
  CASE fn = "storeNodeKey" -> StoreNodeKeyArguments
    [] fn = "loadNodeKey"  -> LoadNodeKeyArguments
    [] OTHER               -> PfxKeysArguments \ {"tmpDir"}

\* a slip: nodeKeyFiles.certificateFile is not checked
storeNodeKeyCheck_noCertificateFile(missing) ==
  IF "nodeId" \in missing THEN "nodeId is required"
  ELSE IF "nodeKey" \in missing \/ "nodeKey.privateKey" \in missing
  THEN "nodeKey.privateKey is required"
  ELSE IF "nodeKey.certificateChain" \in missing THEN "nodeKey.certificateChain is required"
  ELSE IF "keysDir" \in missing THEN "keysDir is required"
  ELSE IF "nodeKeyFiles" \in missing \/ "nodeKeyFiles.privateKeyFile" \in missing
  THEN "nodeKeyFiles.privateKeyFile is required"
  ELSE ""

\* the checks of storeNodeKey: the message of the first that fails, or ""
storeNodeKeyCheck(missing) ==
  IF "nodeId" \in missing THEN "nodeId is required"
  ELSE IF "nodeKey" \in missing \/ "nodeKey.privateKey" \in missing
  THEN "nodeKey.privateKey is required"
  ELSE IF "nodeKey" \in missing \/ "nodeKey.certificateChain" \in missing
  THEN "nodeKey.certificateChain is required"
  ELSE IF "keysDir" \in missing THEN "keysDir is required"
  ELSE IF "nodeKeyFiles" \in missing \/ "nodeKeyFiles.privateKeyFile" \in missing
  THEN "nodeKeyFiles.privateKeyFile is required"
  ELSE IF "nodeKeyFiles" \in missing \/ "nodeKeyFiles.certificateFile" \in missing
  THEN "nodeKeyFiles.certificateFile is required"
  ELSE ""

\* the checks of loadNodeKey
loadNodeKeyCheck(missing) ==
  IF "nodeId" \in missing THEN "nodeId is required"
  ELSE IF "keysDir" \in missing THEN "keysDir is required"
  ELSE IF "algo" \in missing THEN "algo is required"
  ELSE IF "nodeKeyFiles" \in missing \/ "nodeKeyFiles.privateKeyFile" \in missing
  THEN "nodeKeyFiles.privateKeyFile is required"
  ELSE IF "nodeKeyFiles" \in missing \/ "nodeKeyFiles.certificateFile" \in missing
  THEN "nodeKeyFiles.certificateFile is required"
  ELSE ""

\* the checks of generatePrivatePfxKeys and of updatePublicPfxKey, which are
\* the same but for the name of the second argument the message gives
PfxKeysCheck(missing) ==
  IF "keytool" \in missing THEN "An instance of core/Keytool is required"
  ELSE IF "nodeId" \in missing THEN "nodeId is required"
  ELSE IF "keysDir" \in missing THEN "keysDir is required"
  ELSE IF "keysDir exists" \in missing THEN "keysDir does not exist"
  ELSE ""

\* keysDir holds the signing key files stored for node1, which the caller
\* still holds
InitStored ==
  LET nodeKey == generateSigningKey("node1", 1) IN
    /\ pemFiles = storeNodeKey(NoFiles, "node1", nodeKey, NodeKeyFiles("node1", "signing"))
    /\ held = Held("node1", "signing", nodeKey)
    /\ nextKey = 2
    /\ lastCall = Called("storeNodeKey", "node1", "signing", nodeKey,
                         [ok |-> TRUE, files |-> NodeKeyFiles("node1", "signing")])
    /\ lastStored = [f \in Nodes \X Roles |->
                       IF f = <<"node1", "signing">> THEN [nodeKey |-> nodeKey, times |-> 1]
                       ELSE [nodeKey |-> Nothing, times |-> 0]]

\* the call made, and the files it found
CallWith(fn, missing, nodeIds) ==
  [fn |-> fn, missing |-> missing, nodeIds |-> nodeIds,
   before |-> [pemFiles |-> pemFiles, pfxFiles |-> pfxFiles]]

\* storeNodeKey(nodeId, nodeKey, keysDir, nodeKeyFiles) of a new signing key
\* pair of node n, with the arguments of the set missing
StoreNodeKeyWith(n, missing) ==
  LET message == storeNodeKeyCheck(missing)
      nodeKey == generateSigningKey(n, nextKey)
  IN /\ fnArgs = <<>>
     /\ fnArgs' = CallWith("storeNodeKey", missing, <<n>>)
     /\ fnResult' = IF message # "" THEN MissingArgument(message)
                    ELSE [ok |-> TRUE, files |-> NodeKeyFiles(n, "signing")]
     /\ pemFiles' = IF message # "" THEN pemFiles
                    ELSE storeNodeKey(pemFiles, n, nodeKey, NodeKeyFiles(n, "signing"))
     /\ UNCHANGED <<held, nextKey, lastCall, lastStored, pfxVars>>

\* the fs calls of storeNodeKey, any of which may throw
StoreNodeKeyFsCalls == {"writeFileSync privateKeyFile", "rmSync certificateFile",
                        "writeFileSync certificateFile"}

\* the files storeNodeKey leaves when the fs call failAt throws: the calls
\* before it have had their effect, and the catch block rejects with the error
storeNodeKeyUntil(files, nodeKey, nodeKeyFiles, failAt) ==
  LET keyPem  == convertPrivateKeyToPem(nodeKey.privateKey)
      written == WriteFile(files, nodeKeyFiles.privateKeyFile, <<keyPem>>)
      removed == RemoveOldCertificateFile(written, nodeKeyFiles.certificateFile)
  IN CASE failAt = "writeFileSync privateKeyFile" -> files
       [] failAt = "rmSync certificateFile"       -> written
       [] OTHER                                   -> removed

\* storeNodeKey(nodeId, nodeKey, keysDir, nodeKeyFiles) of a new signing key
\* pair of node n, during which an fs call throws
StoreNodeKeyFailing(n, failAt) ==
  LET nodeKey == generateSigningKey(n, nextKey) IN
    /\ fnArgs = <<>>
    /\ failAt = "rmSync certificateFile" =>
         Exists(pemFiles, NodeKeyFiles(n, "signing").certificateFile)
    /\ fnArgs' = CallWith("storeNodeKey", {}, <<n>>) @@ [failAt |-> failAt, nodeKey |-> nodeKey]
    /\ fnResult' = Thrown("Error")
    /\ pemFiles' = storeNodeKeyUntil(pemFiles, nodeKey, NodeKeyFiles(n, "signing"), failAt)
    /\ UNCHANGED <<held, nextKey, lastCall, lastStored, pfxVars>>

\* loadNodeKey(nodeId, keysDir, algo, nodeKeyFiles) for node n
LoadNodeKeyWith(n, role, missing) ==
  LET message == loadNodeKeyCheck(missing) IN
    /\ fnArgs = <<>>
    /\ fnArgs' = CallWith("loadNodeKey", missing, <<n>>)
    /\ fnResult' = IF message # "" THEN MissingArgument(message)
                   ELSE loadNodeKey(pemFiles, n, RoleAlgo(role), NodeKeyFiles(n, role))
    /\ UNCHANGED <<pemVars, pfxVars>>

\* what a call of a PKCS12 method leaves when its checks throw: tmpDir
\* defaults to getTmpDir() before the checks are made, so a call without it
\* has made a temporary directory, which is empty
PfxKeysThrown(fn, missing, nodeIds, message) ==
  /\ fnArgs' = CallWith(fn, missing, nodeIds)
  /\ fnResult' = MissingArgument(message) @@ [tmpDirMade |-> "tmpDir" \in missing]
  /\ UNCHANGED <<pemVars, pfxVars>>

\* generatePrivatePfxKeys(keytool, nodeId, keysDir, tmpDir)
GeneratePrivatePfxKeysWith(n, missing) ==
  LET message == PfxKeysCheck(missing) IN
    /\ fnArgs = <<>>
    /\ IF message # "" THEN PfxKeysThrown("generatePrivatePfxKeys", missing, <<n>>, message)
       ELSE /\ GenCall(Caller, n)
            /\ fnArgs' = CallWith("generatePrivatePfxKeys", missing, <<n>>)
            /\ fnResult' = [ok |-> TRUE, tmpDirMade |-> "tmpDir" \in missing]
            /\ UNCHANGED pemVars

\* updatePublicPfxKey(keytool, nodeIds, keysDir, tmpDir)
UpdatePublicPfxKeyWith(ids, missing) ==
  LET message == PfxKeysCheck(missing) IN
    /\ fnArgs = <<>>
    /\ IF message # "" THEN PfxKeysThrown("updatePublicPfxKey", missing, ids, message)
       ELSE /\ UpdateCall(Caller, ids)
            /\ fnArgs' = CallWith("updatePublicPfxKey", missing, ids)
            /\ fnResult' = [ok |-> TRUE, tmpDirMade |-> "tmpDir" \in missing]
            /\ UNCHANGED pemVars

(***************************************************************************)
(* The specifications.                                                     *)
(***************************************************************************)
\* the network the key operations of Spec and SpecPfx are run for
InitNetwork ==
  /\ nodeIDs = <<"node1", "node2", "node3">>
  /\ topology = getNodeAccountMap(nodeIDs)
  /\ mapArg = <<>>
  /\ accountMap = <<>>

\* no command is in progress
NoCmd == [name |-> "", nodeIds |-> <<>>, at |-> "idle", node |-> 0,
          failed |-> "", cause |-> "", before |-> <<>>]

InitCmd ==
  /\ cmd = NoCmd
  /\ steps = <<>>

\* no function has been called
InitFn ==
  /\ fnArgs = <<>>
  /\ fnResult = <<>>

Init == InitPem /\ InitNetwork /\ InitPfx /\ InitCmd /\ InitFn

Next ==
  \/ \E n \in Nodes : GenerateSigningKey(n) /\ UNCHANGED <<topoVars, pfxVars, cmdVars, fnVars>>
  \/ \E n \in Nodes : GenerateAgreementKey(n) /\ UNCHANGED <<topoVars, pfxVars, cmdVars, fnVars>>
  \/ \E n \in Nodes : GenerateGrpcTLSKey(n) /\ UNCHANGED <<topoVars, pfxVars, cmdVars, fnVars>>
  \/ StoreKey /\ UNCHANGED <<topoVars, pfxVars, cmdVars, fnVars>>
  \/ \E n \in Nodes, role \in Roles : LoadKey(n, role) /\ UNCHANGED <<topoVars, pfxVars, cmdVars, fnVars>>

Spec == Init /\ [][Next]_vars

InitAnyNetwork == InitPem /\ InitTopology /\ InitPfx /\ InitCmd /\ InitFn

NextTopology ==
  \/ \E n \in NodeNames : AddNode(n) /\ UNCHANGED <<pemVars, pfxVars, cmdVars, fnVars>>
  \/ \E n \in NodeNames : UpdateNode(n) /\ UNCHANGED <<pemVars, pfxVars, cmdVars, fnVars>>
  \/ \E n \in NodeNames : DeleteNode(n) /\ UNCHANGED <<pemVars, pfxVars, cmdVars, fnVars>>
  \/ \E list \in ListsUpTo(MaxLen) : CallGetNodeAccountMap(list) /\ UNCHANGED <<pemVars, pfxVars, cmdVars, fnVars>>

SpecTopology == InitAnyNetwork /\ [][NextTopology]_vars

NextPfx ==
  \/ \E p \in Invocations, n \in Nodes : GenCall(p, n) /\ UNCHANGED <<pemVars, topoVars, cmdVars, fnVars>>
  \/ \E p \in Invocations : GenKeyPairSigning(p) /\ UNCHANGED <<pemVars, topoVars, cmdVars, fnVars>>
  \/ \E p \in Invocations : GenKeyPair(p) /\ UNCHANGED <<pemVars, topoVars, cmdVars, fnVars>>
  \/ \E p \in Invocations : CertReq(p) /\ UNCHANGED <<pemVars, topoVars, cmdVars, fnVars>>
  \/ \E p \in Invocations : GenCert(p) /\ UNCHANGED <<pemVars, topoVars, cmdVars, fnVars>>
  \/ \E p \in Invocations : ImportSignedCert(p) /\ UNCHANGED <<pemVars, topoVars, cmdVars, fnVars>>
  \/ \E p \in Invocations : CopyPrivatePfx(p) /\ UNCHANGED <<pemVars, topoVars, cmdVars, fnVars>>
  \/ \E p \in Invocations, ids \in NodeIdLists : UpdateCall(p, ids) /\ UNCHANGED <<pemVars, topoVars, cmdVars, fnVars>>
  \/ \E p \in Invocations : ExportCert(p) /\ UNCHANGED <<pemVars, topoVars, cmdVars, fnVars>>
  \/ \E p \in Invocations : ImportCert(p) /\ UNCHANGED <<pemVars, topoVars, cmdVars, fnVars>>
  \/ \E p \in Invocations : CopyPublicPfx(p) /\ UNCHANGED <<pemVars, topoVars, cmdVars, fnVars>>

InitKeys == InitPem /\ InitNetwork /\ InitPfxKeys /\ InitCmd /\ InitFn

SpecPfx == InitKeys /\ [][NextPfx]_vars

NextKeys ==
  \/ \E l \in NodeIdLists : KeysBackup(l) /\ UNCHANGED <<pemVars, topoVars, fnVars>>
  \/ KeysGenerate /\ UNCHANGED <<pemVars, topoVars, fnVars>>
  \/ KeysGenerated /\ UNCHANGED <<pemVars, topoVars, fnVars>>
  \/ KeysUpdate /\ UNCHANGED <<pemVars, topoVars, fnVars>>
  \/ KeysUpdated /\ UNCHANGED <<pemVars, topoVars, fnVars>>
  \/ \E n \in Nodes :
       NoSequence /\ GenCall(Caller, n) /\ UNCHANGED <<pemVars, topoVars, cmdVars, fnVars>>
  \/ \E ids \in NodeIdLists :
       NoSequence /\ UpdateCall(Caller, ids) /\ UNCHANGED <<pemVars, topoVars, cmdVars, fnVars>>
  \/ GenKeyPairSigning(Caller) /\ UNCHANGED <<pemVars, topoVars, cmdVars, fnVars>>
  \/ GenKeyPair(Caller) /\ UNCHANGED <<pemVars, topoVars, cmdVars, fnVars>>
  \/ CertReq(Caller) /\ UNCHANGED <<pemVars, topoVars, cmdVars, fnVars>>
  \/ GenCert(Caller) /\ UNCHANGED <<pemVars, topoVars, cmdVars, fnVars>>
  \/ ImportSignedCert(Caller) /\ UNCHANGED <<pemVars, topoVars, cmdVars, fnVars>>
  \/ CopyPrivatePfx(Caller) /\ UNCHANGED <<pemVars, topoVars, cmdVars, fnVars>>
  \/ ExportCert(Caller) /\ UNCHANGED <<pemVars, topoVars, cmdVars, fnVars>>
  \/ ImportCert(Caller) /\ UNCHANGED <<pemVars, topoVars, cmdVars, fnVars>>
  \/ CopyPublicPfx(Caller) /\ UNCHANGED <<pemVars, topoVars, cmdVars, fnVars>>
  \/ KeytoolFails(Caller) /\ UNCHANGED <<pemVars, topoVars, cmdVars, fnVars>>

InitRegeneration == InitPem /\ InitNetwork /\ InitKeysDir /\ InitCmd /\ InitFn

SpecKeys == InitRegeneration /\ [][NextKeys]_vars

NextPem ==
  \/ \E pemStr \in PemTexts, algo \in KeyAlgos :
       CallConvertPemToPrivateKey(pemStr, algo) /\ UNCHANGED <<pemVars, topoVars, pfxVars, cmdVars>>
  \/ \E pemStr \in PemTexts, role \in Roles :
       CallLoadNodeKey(pemStr, role) /\ UNCHANGED <<pemVars, topoVars, pfxVars, cmdVars>>

SpecPem == Init /\ [][NextPem]_vars

NextArgs ==
  \/ \E n \in Nodes, missing \in SUBSET StoreNodeKeyArguments :
       StoreNodeKeyWith(n, missing) /\ UNCHANGED <<topoVars, cmdVars>>
  \/ \E n \in Nodes, role \in Roles, missing \in SUBSET LoadNodeKeyArguments :
       LoadNodeKeyWith(n, role, missing) /\ UNCHANGED <<topoVars, cmdVars>>
  \/ \E n \in Nodes, missing \in SUBSET PfxKeysArguments :
       GeneratePrivatePfxKeysWith(n, missing) /\ UNCHANGED <<topoVars, cmdVars>>
  \/ \E ids \in NodeIdLists, missing \in SUBSET PfxKeysArguments :
       UpdatePublicPfxKeyWith(ids, missing) /\ UNCHANGED <<topoVars, cmdVars>>

  \/ \E n \in Nodes, failAt \in StoreNodeKeyFsCalls :
       StoreNodeKeyFailing(n, failAt) /\ UNCHANGED <<topoVars, cmdVars>>

InitArgs == InitStored /\ InitNetwork /\ InitKeysDir /\ InitCmd /\ InitFn

SpecArgs == InitArgs /\ [][NextArgs]_vars

NextLifecycle ==
  \/ \E op \in LifecycleOps, target \in NodeNames :
       LifecycleStart(op, target) /\ UNCHANGED <<pfxVars, fnVars>>
  \/ \E node \in NodeNames \cup {""} : TaskStart(node) /\ UNCHANGED <<pfxVars, fnVars>>
  \/ \E node \in NodeNames \cup {""} : TaskSucceed(node) /\ UNCHANGED <<pfxVars, fnVars>>
  \/ \E node \in NodeNames \cup {""} : TaskFail(node) /\ UNCHANGED <<pfxVars, fnVars>>
  \/ \E node \in NodeNames : TaskPoll(node) /\ UNCHANGED <<pfxVars, fnVars>>

InitOperation == InitLifecycle /\ InitPfx /\ InitFn

SpecLifecycle == InitOperation /\ [][NextLifecycle]_vars

\* one Add, in which the task runner goes on
NextAdd ==
  \/ \E target \in NodeNames :
       cmd.at = "idle" /\ LifecycleStart("add", target) /\ UNCHANGED <<pfxVars, fnVars>>
  \/ \E node \in NodeNames \cup {""} : TaskStart(node) /\ UNCHANGED <<pfxVars, fnVars>>
  \/ \E node \in NodeNames \cup {""} : TaskSucceed(node) /\ UNCHANGED <<pfxVars, fnVars>>
  \/ \E node \in NodeNames \cup {""} : TaskFail(node) /\ UNCHANGED <<pfxVars, fnVars>>
  \/ \E node \in NodeNames : TaskPoll(node) /\ UNCHANGED <<pfxVars, fnVars>>

\* the task runner goes on with what it has started: a task in flight polls
\* again, succeeds or fails
Settling ==
  \E node \in NodeNames \cup {""} :
    (TaskPoll(node) \/ TaskSucceed(node) \/ TaskFail(node)) /\ UNCHANGED <<pfxVars, fnVars>>

SpecAdd == InitOperation /\ [][NextAdd]_vars /\ WF_vars(Settling)

NextHelpers ==
  \/ \E input \in FlagInputs :
       CallParseNodeIds(input) /\ UNCHANGED <<pemVars, topoVars, pfxVars, cmdVars>>
  \/ \E prefix \in {"backup", "unused-gossip-pem"}, curDate \in Dates, again \in BOOLEAN :
       CallCreateBackupDir(prefix, curDate, again)
         /\ UNCHANGED <<pemVars, topoVars, pfxVars, cmdVars>>

  \/ \E names \in UNION {[1..m -> BackupNames] : m \in 0..MaxLen}, removeOld \in BOOLEAN,
        inKeysDir \in SUBSET BackupNames, inBackup \in SUBSET BackupNames :
       CallMakeBackup(names, removeOld, inKeysDir, inBackup)
         /\ UNCHANGED <<pemVars, topoVars, pfxVars, cmdVars>>
  \/ \E nodeIds \in UNION {[1..m -> Nodes] : m \in 0..MaxLen} :
       CallBackupOldPemKeys(nodeIds) /\ UNCHANGED <<pemVars, topoVars, pfxVars, cmdVars>>

SpecHelpers == Init /\ [][NextHelpers]_vars

(***************************************************************************)
(* Properties of the PEM key operations (Spec).                            *)
(***************************************************************************)
\* the key and certificate files of node n, with their content
KeyFilesOf(files, n) ==
  LET paths == UNION {{NodeKeyFiles(n, role).privateKeyFile,
                       NodeKeyFiles(n, role).certificateFile} : role \in Roles}
  IN [f \in paths \cap DOMAIN files |-> files[f]]

\* C1: a key operation for node X (generation, storeSigningKey,
\* storeAgreementKey, storeTLSKey, load) leaves the content of the private key
\* and certificate files of every other node as it was.
C1_NonInterference ==
  [][\A n \in Nodes :
       lastCall'.nodeId # n => KeyFilesOf(pemFiles', n) = KeyFilesOf(pemFiles, n)]_vars

\* a key pair has just been stored for one node while another node has key files
C1_Witness ==
  /\ lastCall.op = "storeNodeKey"
  /\ lastCall.result.ok
  /\ \E n \in Nodes \ {lastCall.nodeId} : DOMAIN KeyFilesOf(pemFiles, n) # {}

\* C6: whatever was stored before, a certificate file holds exactly the
\* certificates of the chain stored to it last, in the chain's order.
C6_CertificateFileReplaced ==
  \A n \in Nodes, role \in Roles :
    LET stored == lastStored[<<n, role>>]
        file   == NodeKeyFiles(n, role).certificateFile
    IN stored.nodeKey.ok =>
         /\ Exists(pemFiles, file)
         /\ Len(pemFiles[file]) = Len(stored.nodeKey.certificateChain)
         /\ \A i \in 1..Len(pemFiles[file]) :
              pemFiles[file][i] = CertToPem(stored.nodeKey.certificateChain[i])

\* a chain of two certificates has been stored to a file that was stored to before
C6_Witness ==
  \E n \in Nodes, role \in Roles :
    /\ lastStored[<<n, role>>].times = 2
    /\ Len(lastStored[<<n, role>>].nodeKey.certificateChain) = 2

\* C7: loadNodeKey of what storeNodeKey stored for the node and role returns
\* the stored private key, the original certificate (serial number, subject,
\* public key; the first of the stored chain) and the stored chain.
C7_RoundTrip ==
  LET stored == lastStored[<<lastCall.nodeId, lastCall.role>>].nodeKey
      loaded == lastCall.result
  IN (lastCall.op = "loadNodeKey" /\ stored.ok) =>
       /\ loaded.ok
       /\ loaded.privateKey.id = stored.privateKey.id
       /\ loaded.privateKey.algo = stored.privateKey.algo
       /\ loaded.certificate.serialNumber = stored.certificate.serialNumber
       /\ loaded.certificate.subject = stored.certificate.subject
       /\ loaded.certificate.publicKey = stored.certificate.publicKey
       /\ loaded.certificate = stored.certificateChain[1]
       /\ loaded.certificateChain = stored.certificateChain

\* an agreement key pair, whose chain has two certificates, has been loaded
C7_Witness ==
  /\ lastCall.op = "loadNodeKey"
  /\ lastCall.role = "agreement"
  /\ lastCall.result.ok
  /\ Len(lastCall.result.certificateChain) = 2

\* C8: the certificate generateAgreementKey returns has the subject of the
\* signing key's certificate as its issuer, and its chain ends at that signing
\* certificate; the certificate generateSigningKey returns is self-signed.
C8_ChainValidity ==
  LET made == lastCall.result IN
    /\ (lastCall.op = "generateAgreementKey" /\ made.ok) =>
         /\ made.certificate.issuer = lastCall.arg.certificate.subject
         /\ made.certificateChain[1] = made.certificate
         /\ made.certificateChain[Len(made.certificateChain)] = lastCall.arg.certificate
    /\ lastCall.op = "generateSigningKey" =>
         /\ made.ok
         /\ made.certificate.issuer = made.certificate.subject
         /\ Verify(made.certificate, made.certificate.publicKey)
         /\ made.certificateChain = <<made.certificate>>

\* an agreement key has been generated for one node with the signing key of another
C8_Witness ==
  /\ lastCall.op = "generateAgreementKey"
  /\ lastCall.result.ok
  /\ lastCall.arg.certificate.subject # "CN=s-" \o lastCall.nodeId
  /\ lastCall.result.certificate.issuer = lastCall.arg.certificate.subject

\* the private key of a signing key object is not the key of its certificate
Mismatched(signingKey) == signingKey.privateKey.id # signingKey.certificate.publicKey.id

RoleCapabilities(cert, role) ==
  CASE role = "signing"   -> cert.ca /\ "keyCertSign" \in cert.keyUsage
    [] role = "agreement" -> "keyCertSign" \notin cert.keyUsage
    [] role = "tls"       -> /\ "keyCertSign" \notin cert.keyUsage
                             /\ ~cert.ca
                             /\ cert.extKeyUsage = {"serverAuth", "clientAuth"}

\* C16: the certificate of a signing key pair is a CA certificate with the
\* certificate-signing key usage; the certificate of an agreement key pair and
\* of a TLS key pair lacks that key usage, and the TLS certificate is not a
\* CA certificate and has the server and client extended usages.  This holds
\* of every key pair generated, held, and loaded from the files of its role.
C16_RoleCapabilities ==
  /\ (lastCall.op \in {"generateSigningKey", "generateAgreementKey",
                       "generateGrpcTLSKey", "loadNodeKey"} /\ lastCall.result.ok) =>
        RoleCapabilities(lastCall.result.certificate, lastCall.role)
  /\ held.nodeKey.ok => RoleCapabilities(held.nodeKey.certificate, held.role)

\* a key pair of each role has been made: a TLS key pair is held, an
\* agreement key pair was loaded
C16_Witness ==
  /\ held.nodeKey.ok /\ held.role = "tls"
  /\ lastCall.op = "loadNodeKey" /\ lastCall.role = "agreement" /\ lastCall.result.ok

(***************************************************************************)
(* Properties of the topology (SpecTopology).                              *)
(***************************************************************************)
\* C2: whenever a node is added, updated or deleted and the topology is
\* computed again from the new node list, every node in the network before and
\* after keeps its account identifier.
C2_AccountIdsStable ==
  [][\A n \in NodeNames :
       (MapHas(topology, n) /\ MapHas(topology', n)) =>
          MapGet(topology', n) = MapGet(topology, n)]_vars

\* what C4 says of a node list and the map computed from it
AssignedInOrder(list, map) ==
  LET start == HEDERA_NODE_ACCOUNT_ID_START
      id(k) == NodeAccount(start.realm, start.shard, start.num + k - 1)
  IN /\ \A k \in 1..Len(list) :
          (\A j \in (k + 1)..Len(list) : list[j] # list[k]) =>
             MapHas(map, list[k]) /\ MapGet(map, list[k]) = id(k)
     /\ \A i \in 1..Len(map) : InList(list, map[i].key)
     /\ NoDuplicates(list) =>
          /\ MapKeys(map) = list
          /\ \A i, j \in 1..Len(map) : map[i].value = map[j].value => i = j
          /\ {map[i].value : i \in 1..Len(map)} = {id(k) : k \in 1..Len(list)}

\* C4: getNodeAccountMap gives the k-th node of its list (counting from 0) the
\* identifier realm.shard.(start + k) of HEDERA_NODE_ACCOUNT_ID_START, a name
\* that occurs again taking the number of its last place; for a list without
\* duplicates the identifiers are pairwise distinct and contiguous.
C4_IdentifiersInOrder ==
  /\ AssignedInOrder(mapArg, accountMap)
  /\ AssignedInOrder(nodeIDs, topology)

\* getNodeAccountMap was called with three different names; the third got 0.0.5
C4_Witness ==
  /\ Len(mapArg) = 3
  /\ NoDuplicates(mapArg)
  /\ MapGet(accountMap, mapArg[3]) = "0.0.5"
  /\ MapGet(accountMap, mapArg[1]) = "0.0.3"

\* C20: a successful Add of a new node to a network of N nodes leaves a
\* topology of exactly N + 1 entries, the new node among them, in which each
\* of the N nodes has the account identifier it had before.
C20_AddKeepsIdentifiers ==
  [][\A n \in NodeNames :
       (~InList(nodeIDs, n) /\ nodeIDs' = Append(nodeIDs, n)) =>
          /\ Len(topology') = Len(nodeIDs) + 1
          /\ MapHas(topology', n)
          /\ \A m \in NodeNames :
               InList(nodeIDs, m) =>
                  /\ MapHas(topology, m)
                  /\ MapHas(topology', m)
                  /\ MapGet(topology', m) = MapGet(topology, m)]_vars

\* a node was added to a network of MaxNodes - 1 nodes and is in the topology
C20_Witness ==
  /\ Len(nodeIDs) = MaxNodes
  /\ Len(topology) = MaxNodes
  /\ MapHas(topology, nodeIDs[MaxNodes])
  /\ MapGet(topology, nodeIDs[1]) = "0.0.3"

\* the node names in their order as strings
NameOrder == <<"node1", "node2", "node3", "node4">>

NameRank(n) == CHOOSE i \in 1..Len(NameOrder) : NameOrder[i] = n

\* the number of an account identifier realm.shard.num
AccountNum(account) ==
  CHOOSE num \in 0..(HEDERA_NODE_ACCOUNT_ID_START.num + MaxLen + MaxNodes) :
    account = NodeAccount(HEDERA_NODE_ACCOUNT_ID_START.realm,
                          HEDERA_NODE_ACCOUNT_ID_START.shard, num)

\* C23: of two nodes of the list getNodeAccountMap is called with, the one
\* whose name is smaller has the smaller account number, in whatever order
\* the names are in the list.
C23_NameOrder ==
  \A a, b \in NodeNames :
    (MapHas(accountMap, a) /\ MapHas(accountMap, b) /\ NameRank(a) < NameRank(b)) =>
       AccountNum(MapGet(accountMap, a)) < AccountNum(MapGet(accountMap, b))

(***************************************************************************)
(* Properties of the PKCS12 key operations (SpecPfx).                      *)
(***************************************************************************)
\* the aliases of the nodes of a list
AliasesOfAll(nodeIdList) == UNION {AliasesOf(nodeIdList[i]) : i \in 1..Len(nodeIdList)}

\* invocation p is a call of op that has returned without an error
Succeeded(p, op) == call[p].op = op /\ pc[p] = Done /\ ret[p].ok

\* C5: a generatePrivatePfxKeys call made when private-<nodeId>.pfx is in
\* keysDir returns the path of that file at once: no keytool command is run,
\* and that file and every other file stay as they are.
C5_ExistingPfxKept ==
  [][\A p \in Invocations :
       LET nodeId == call'[p].nodeIds[1] IN
         (/\ call'[p].id # call[p].id
          /\ call'[p].op = "generatePrivatePfxKeys"
          /\ Exists(pfxFiles, PrivatePfxFile(nodeId))) =>
            /\ pc'[p] = Done
            /\ ret'[p] = Returned(PrivatePfxFile(nodeId))
            /\ ktLog'[p] = <<>>
            /\ tmpFiles'[p] = NoFiles
            /\ pfxFiles' = pfxFiles]_vars

\* generatePrivatePfxKeys has returned for a node whose file was there before
C5_Witness ==
  \E p \in Invocations :
    /\ Succeeded(p, "generatePrivatePfxKeys")
    /\ Exists(call[p].before, PrivatePfxFile(call[p].nodeIds[1]))
    /\ ret[p].path = PrivatePfxFile(call[p].nodeIds[1])
    /\ ktLog[p] = <<>>

\* C9: when updatePublicPfxKey(nodeIds) returns, public.pfx holds every entry
\* it held when the call was made under an alias of a node not in nodeIds,
\* unchanged, and it holds the entries {s,a,e}-<nodeId> of every listed node.
C9_Additive ==
  [][\A p \in Invocations :
       (call[p].op = "updatePublicPfxKey" /\ pc[p] # Done /\ pc'[p] = Done /\ ret'[p].ok) =>
          LET before == StoreAt(call[p].before, PublicPfxFile)
              after  == StoreAt(pfxFiles', PublicPfxFile)
              listed == AliasesOfAll(call[p].nodeIds)
          IN /\ \A alias \in DOMAIN before \ listed :
                  alias \in DOMAIN after /\ after[alias] = before[alias]
             /\ listed \subseteq DOMAIN after]_vars

\* updatePublicPfxKey has returned for one node; public.pfx held entries of
\* another node when the call was made
C9_Witness ==
  \E p \in Invocations :
    /\ Succeeded(p, "updatePublicPfxKey")
    /\ Len(call[p].nodeIds) = 1
    /\ DOMAIN StoreAt(call[p].before, PublicPfxFile) \ AliasesOfAll(call[p].nodeIds) # {}

\* C10, one after the other: when two updatePublicPfxKey calls have returned
\* and no call was in progress during either of them, public.pfx holds the
\* entries of the nodes of both.
C10_SerializedUnion ==
  \A p, q \in Invocations :
    (/\ p # q
     /\ Succeeded(p, "updatePublicPfxKey") /\ ~call[p].concurrent
     /\ Succeeded(q, "updatePublicPfxKey") /\ ~call[q].concurrent) =>
       /\ Exists(pfxFiles, PublicPfxFile)
       /\ AliasesOfAll(call[p].nodeIds) \cup AliasesOfAll(call[q].nodeIds)
            \subseteq DOMAIN pfxFiles[PublicPfxFile]

\* C10, interleaved: two updatePublicPfxKey calls for different nodes have both
\* returned without an error, and public.pfx lacks the entries of one of them
C10_LostUpdate ==
  \E p, q \in Invocations :
    /\ p # q
    /\ Succeeded(p, "updatePublicPfxKey")
    /\ Succeeded(q, "updatePublicPfxKey")
    /\ AliasesOfAll(call[p].nodeIds) \cap AliasesOfAll(call[q].nodeIds) = {}
    /\ AliasesOfAll(call[q].nodeIds) \subseteq DOMAIN pfxFiles[PublicPfxFile]
    /\ AliasesOfAll(call[p].nodeIds) \cap DOMAIN pfxFiles[PublicPfxFile] = {}

\* two updatePublicPfxKey calls for different nodes have returned, one after
\* the other
C10_Serialized ==
  \E p, q \in Invocations :
    /\ p # q
    /\ Succeeded(p, "updatePublicPfxKey") /\ ~call[p].concurrent
    /\ Succeeded(q, "updatePublicPfxKey") /\ ~call[q].concurrent
    /\ call[p].nodeIds # call[q].nodeIds

\* C24: once private-<nodeId>.pfx is in keysDir its content never changes,
\* however the generatePrivatePfxKeys calls for the node interleave.
C24_PrivatePfxNeverChanges ==
  [][\A n \in Nodes :
       Exists(pfxFiles, PrivatePfxFile(n)) =>
          /\ Exists(pfxFiles', PrivatePfxFile(n))
          /\ pfxFiles'[PrivatePfxFile(n)] = pfxFiles[PrivatePfxFile(n)]]_vars

(***************************************************************************)
(* Properties of the key regeneration sequence (SpecKeys).                 *)
(***************************************************************************)
\* C11: when the sequence backupOldPfxKeys(S), generatePrivatePfxKeys for
\* each node of S, updatePublicPfxKey(S) has completed, public.pfx holds, as
\* they were, the certificate entries it held before the sequence for every
\* node outside S that has its private-<nodeId>.pfx.
C11_OthersKeptInPublicPfx ==
  cmd.at = "done" =>
    \A n \in Nodes :
      (~InList(cmd.nodeIds, n) /\ Exists(cmd.before, PrivatePfxFile(n))) =>
         \A alias \in AliasesOf(n) \cap DOMAIN StoreAt(cmd.before, PublicPfxFile) :
           /\ alias \in DOMAIN StoreAt(pfxFiles, PublicPfxFile)
           /\ pfxFiles[PublicPfxFile][alias] = cmd.before[PublicPfxFile][alias]

\* the keytool commands of generatePrivatePfxKeys, in the order C25 gives
RECURSIVE SignedKeyCommands(_)
SignedKeyCommands(i) ==
  IF i > Len(SignedKeyPrefixes) THEN <<>>
  ELSE <<<<"genKeyPair", SignedKeyPrefixes[i]>>, <<"certReq", SignedKeyPrefixes[i]>>,
         <<"genCert", SignedKeyPrefixes[i]>>, <<"importCert", SignedKeyPrefixes[i]>>>>
         \o SignedKeyCommands(i + 1)

PrivatePfxCommands == <<<<"genKeyPair", SIGNING_KEY_PREFIX>>>> \o SignedKeyCommands(1)

\* the commands that were run, without the mark of the one that failed
CommandsRun(log) ==
  IF log # <<>> /\ log[Len(log)][1] = "failed" THEN SubSeq(log, 1, Len(log) - 1) ELSE log

IsPrefix(s, t) == Len(s) <= Len(t) /\ s = SubSeq(t, 1, Len(s))

\* C25: generatePrivatePfxKeys generates the signing key pair first and then,
\* for the agreement and for the encryption key, runs genKeyPair, certReq,
\* genCert, importCert in this order, and copies the file to keysDir only
\* when all of them have succeeded; updatePublicPfxKey exports each
\* certificate from the private keystore before it imports it into the
\* public one.
C25_CommandOrder ==
  /\ [](\A p \in Invocations :
          /\ call[p].op = "generatePrivatePfxKeys" =>
               /\ IsPrefix(CommandsRun(ktLog[p]), PrivatePfxCommands)
               /\ pc[p].at = "copyPrivate" => ktLog[p] = PrivatePfxCommands
          /\ call[p].op = "updatePublicPfxKey" =>
               LET log == CommandsRun(ktLog[p]) IN
                 \A i \in 1..Len(log) :
                   /\ log[i][1] = (IF i % 2 = 1 THEN "exportCert" ELSE "importCert")
                   /\ log[i][2] = PublicKeyPrefixes[(((i - 1) \div 2) % Len(PublicKeyPrefixes)) + 1])
  /\ [][\A n \in Nodes :
          (StoreAt(pfxFiles', PrivatePfxFile(n)) # StoreAt(pfxFiles, PrivatePfxFile(n))
             /\ cmd' = cmd) =>
             \E p \in Invocations :
               /\ call[p].op = "generatePrivatePfxKeys"
               /\ call[p].nodeIds = <<n>>
               /\ ktLog[p] = PrivatePfxCommands
               /\ ret'[p].ok]_vars

\* an updatePublicPfxKey call for two nodes has exported and imported the
\* three certificates of each and has returned
C25_Witness ==
  /\ call[Caller].op = "updatePublicPfxKey"
  /\ Len(call[Caller].nodeIds) = 2
  /\ pc[Caller] = Done
  /\ ret[Caller].ok
  /\ Len(ktLog[Caller]) = 2 * Len(PublicKeyPrefixes) * 2

(***************************************************************************)
(* Properties of the private key files (SpecPem).                          *)
(***************************************************************************)
\* the private key a call on a private key file returned
ImportedKey == IF fnArgs.fn = "loadNodeKey" THEN fnResult.privateKey ELSE fnResult.key

\* C12: from a private key file of one or more PEM blocks,
\* convertPemToPrivateKey, and loadNodeKey through it, import the last block:
\* the call succeeds exactly when the last block is a private key of the
\* algorithm, and the key returned is that block's, whatever the blocks before.
C12_LastBlockImported ==
  (fnArgs # <<>> /\ Len(fnArgs.pemStr) >= 1) =>
    LET last == fnArgs.pemStr[Len(fnArgs.pemStr)].der IN
      /\ fnResult.ok <=> (last.format = "pkcs8" /\ last.algo = fnArgs.algo)
      /\ fnResult.ok => (ImportedKey.id = last.id /\ ImportedKey.algo = last.algo)

\* loadNodeKey has returned the key of the last of three blocks, which is
\* not the key of the first
C12_Witness ==
  /\ fnArgs # <<>>
  /\ fnArgs.fn = "loadNodeKey"
  /\ Len(fnArgs.pemStr) = 3
  /\ fnResult.ok
  /\ fnArgs.pemStr[1].der.format = "pkcs8"
  /\ fnArgs.pemStr[1].der.id # fnResult.privateKey.id
  /\ fnArgs.pemStr[3].der.id = fnResult.privateKey.id

\* C14: a generatePrivatePfxKeys or updatePublicPfxKey call that ends with an
\* error (a keytool command that fails, a private-<nodeId>.pfx that is
\* missing) leaves every file of keysDir as it was when the call was made: no
\* private-<nodeId>.pfx is created, public.pfx is not touched; and once the
\* call has ended it runs no further keytool command.
C14_FailureLeavesKeysDir ==
  [][\A p \in Invocations :
       /\ (/\ pc'[p] = Done /\ ~ret'[p].ok
           /\ (pc[p] # Done \/ call'[p].id # call[p].id)) =>
             /\ pfxFiles' = call'[p].before
             /\ StoreAt(pfxFiles', PublicPfxFile) = StoreAt(call'[p].before, PublicPfxFile)
             /\ call'[p].op = "generatePrivatePfxKeys" =>
                  ~Exists(pfxFiles', PrivatePfxFile(call'[p].nodeIds[1]))
       /\ (pc[p] = Done /\ call'[p].id = call[p].id) =>
             (ktLog'[p] = ktLog[p] /\ pc'[p] = Done)]_vars

\* a keytool command of updatePublicPfxKey has failed after certificates were
\* imported, and public.pfx of keysDir is there as before the call
C14_Witness ==
  /\ call[Caller].op = "updatePublicPfxKey"
  /\ pc[Caller] = Done
  /\ ~ret[Caller].ok
  /\ Len(ktLog[Caller]) > 2
  /\ ktLog[Caller][Len(ktLog[Caller])][1] = "failed"
  /\ Exists(pfxFiles, PublicPfxFile)
  /\ pfxFiles = call[Caller].before

SamePair(files, nodeKeyFiles) ==
  /\ Exists(files, nodeKeyFiles.privateKeyFile)
  /\ Exists(files, nodeKeyFiles.certificateFile)
  /\ files[nodeKeyFiles.certificateFile] # <<>>
  /\ files[nodeKeyFiles.certificateFile][1].der.cert.publicKey.id
       = files[nodeKeyFiles.privateKeyFile][1].der.id

\* C26: whether a storeNodeKey call returns or fails, the private key file
\* and the certificate file it leaves are of the same key pair: both the new
\* ones or both the ones found.
C26_NeverMismatched ==
  (fnArgs # <<>> /\ fnArgs.fn = "storeNodeKey") =>
     LET nodeKeyFiles == NodeKeyFiles(fnArgs.nodeIds[1], "signing")
         isNew(f) == Exists(pemFiles, f) /\ ~(Exists(fnArgs.before.pemFiles, f)
                                              /\ pemFiles[f] = fnArgs.before.pemFiles[f])
         isOld(f) == Exists(pemFiles, f) <=> Exists(fnArgs.before.pemFiles, f)
     IN \/ /\ SamePair(pemFiles, nodeKeyFiles)
           /\ isNew(nodeKeyFiles.privateKeyFile) /\ isNew(nodeKeyFiles.certificateFile)
        \/ /\ pemFiles = fnArgs.before.pemFiles
           /\ isOld(nodeKeyFiles.privateKeyFile) /\ isOld(nodeKeyFiles.certificateFile)

(***************************************************************************)
(* Properties of the lifecycle operations (SpecLifecycle).                 *)
(***************************************************************************)
\* the tasks of a kind that were started, and those of them that succeeded
TasksOf(kind) == {t \in steps : cmd.pipeline[t.step].kind = kind}

SucceededTasks(kind) == {t \in TasksOf(kind) : t.outcome = "succeeded"}

\* C17: in a lifecycle operation the keys of a node are generated before a
\* topology that refers to the node is rendered, the topology is rendered
\* before anything is staged, and every node is staged before the freeze is
\* released by the restart.
C17_LifecycleOrdering ==
  /\ \A i \in 1..Len(topology) : HasKeys(pemFiles, topology[i].key)
  /\ TasksOf("render") # {} =>
       \A k \in 1..Len(cmd.pipeline) :
         cmd.pipeline[k].kind \in {"gossip", "tls"} => StepEnded(steps, k)
  /\ TasksOf("stage") # {} => SucceededTasks("render") # {}
  /\ \A t \in SucceededTasks("stage") : cmd.staged[t.node] = topology
  /\ (TasksOf("stage") # {} /\ TasksOf("start") = {}) => cmd.frozen
  /\ TasksOf("start") # {} =>
       \A n \in SetOf(nodeIDs) :
         /\ \E t \in SucceededTasks("stage") : t.node = n
         /\ cmd.staged[n] = topology

\* an Add has rendered the topology with its new node, staged it to all four
\* nodes and started one of them
C17_Witness ==
  /\ cmd.name = "add"
  /\ Len(topology) = 4
  /\ Cardinality(SucceededTasks("stage")) = 4
  /\ SucceededTasks("start") # {}
  /\ ~cmd.frozen

\* C18: when a task of a step fails the pipeline has failed, and the failure
\* it reports gives the name of that step and the cause; no task of a later
\* step is started; a task of a step is started only when every step before
\* it has ended with all its tasks succeeded.
C18_PipelineHalts ==
  /\ \A t \in steps :
       t.outcome = "failed" =>
          /\ cmd.at = "failed"
          /\ cmd.failed = t.name
          /\ cmd.failed = cmd.pipeline[t.step].name
          /\ cmd.cause = t.cause
          /\ cmd.cause # ""
          /\ \A u \in steps : u.step <= t.step
  /\ cmd.at = "failed" =>
       \E t \in steps : t.outcome = "failed" /\ t.node = cmd.node /\ t.cause = cmd.cause
  /\ \A t \in steps : \A k \in 1..(t.step - 1) : StepEnded(steps, k)

\* staging to one node has failed after staging to another had succeeded
C18_Witness ==
  /\ cmd.at = "failed"
  /\ cmd.failed = "Copy configuration files"
  /\ cmd.cause = "RemoteStagingError"
  /\ \E t \in SucceededTasks("stage") : t.node # cmd.node
  /\ InFlight = {}

\* C19: an Add of a name that is in the node list fails at its validation
\* step: no step after it is started, so no key is generated, no key file is
\* written, the topology is not rendered and nothing is staged.
C19_AddRejectsExistingName ==
  (cmd.name = "add" /\ InList(cmd.before.nodeIDs, cmd.nodeIds[1])) =>
     /\ cmd.at \in {"running", "failed"}
     /\ cmd.at = "failed" => (cmd.failed = "Validate node" /\ cmd.cause = "ValidationError")
     /\ \A t \in steps : t.step = 1 /\ t.outcome # "succeeded"
     /\ pemFiles = cmd.before.pemFiles
     /\ nodeIDs = cmd.before.nodeIDs
     /\ topology = cmd.before.topology
     /\ cmd.staged = cmd.before.staged

\* an Add of a name of the network has failed
C19_Witness ==
  /\ cmd.name = "add"
  /\ InList(cmd.before.nodeIDs, cmd.nodeIds[1])
  /\ cmd.at = "failed"
  /\ HasKeys(pemFiles, cmd.nodeIds[1])

\* C22: a Delete of node X leaves a topology without X in which every other
\* node still is; it generates no key, and the key and certificate files of
\* every other node (of every node, in fact) are as they were.
C22_DeleteRemovesOnlyTarget ==
  cmd.name = "delete" =>
     /\ TasksOf("gossip") \cup TasksOf("tls") = {}
     /\ pemFiles = cmd.before.pemFiles
     /\ cmd.at = "done" =>
          /\ ~MapHas(topology, cmd.nodeIds[1])
          /\ \A n \in SetOf(cmd.before.nodeIDs) \ {cmd.nodeIds[1]} :
               /\ MapHas(topology, n)
               /\ KeyFilesOf(pemFiles, n) = KeyFilesOf(cmd.before.pemFiles, n)
          /\ Len(topology) = Len(cmd.before.topology) - 1

\* node2 was deleted from the network of node1, node2 and node3
C22_Witness ==
  /\ cmd.name = "delete"
  /\ cmd.at = "done"
  /\ cmd.nodeIds = <<"node2">>
  /\ MapKeys(topology) = <<"node1", "node3">>
  /\ HasKeys(pemFiles, "node2")

\* the health checks that were started
Polls == TasksOf("check")

\* C21: the activation poll ends: a check sees its node ACTIVE (its proxy
\* healthy) within MaxAttempts attempts, or fails after them with
\* NodeActivationTimeoutError, which fails the operation; an operation in
\* which a check has timed out is never done.
C21_BoundedPolling ==
  /\ [](\A t \in Polls :
          /\ t.attempts <= MaxAttempts
          /\ t.outcome = "failed" =>
               /\ t.attempts = MaxAttempts
               /\ t.cause = "NodeActivationTimeoutError"
               /\ cmd.at = "failed"
               /\ cmd.cause = "NodeActivationTimeoutError"
               /\ cmd.failed = t.name)
  /\ [][\A t \in Polls :
          (/\ t.outcome = "started"
           /\ \E u \in steps' : u.step = t.step /\ u.node = t.node /\ u.outcome = "succeeded")
            => t.attempts < MaxAttempts]_vars
  /\ [](cmd.at = "done" => \A t \in steps : t.outcome = "succeeded")
  /\ \A n \in NodeNames :
       (\E t \in Polls : t.node = n /\ t.outcome = "started")
          ~> (\A t \in Polls : t.node = n => t.outcome # "started")

\* the check of the node added has polled MaxAttempts times and timed out
C21_Witness ==
  /\ cmd.name = "add"
  /\ cmd.at = "failed"
  /\ cmd.cause = "NodeActivationTimeoutError"
  /\ cmd.node = cmd.nodeIds[1]
  /\ \E t \in Polls : t.node = cmd.node /\ t.attempts = MaxAttempts /\ t.outcome = "failed"

(***************************************************************************)
(* Properties of the helpers (SpecHelpers).                                *)
(***************************************************************************)
\* the items the split of a string should give: the segments between
\* separators, trimmed, without those that are empty once trimmed
RECURSIVE TrimmedItems(_, _)
TrimmedItems(segments, i) ==
  IF i > Len(segments) THEN <<>>
  ELSE (IF Trim(segments[i]) = <<>> THEN <<>> ELSE <<Trim(segments[i])>>)
         \o TrimmedItems(segments, i + 1)

\* C29: parseNodeIds / splitFlagInput gives, for a string, the items between
\* separators, trimmed, in input order, and none of them is the empty string;
\* for an input that is not a string it throws.
C29_NoEmptyItem ==
  (fnArgs # <<>> /\ fnArgs.fn = "parseNodeIds") =>
     IF fnArgs.input.type = "string"
     THEN /\ fnResult.ok
          /\ fnResult.items = TrimmedItems(SplitFrom(fnArgs.input.chars, ",", 1, <<>>), 1)
          /\ \A i \in 1..Len(fnResult.items) : fnResult.items[i] # <<>>
     ELSE ~fnResult.ok

\* the directory name C30 expects for a date
ExpectedDateDir(curDate) ==
  ToString(curDate.year) \o PadStart2(curDate.month) \o PadStart2(curDate.date)
    \o "_" \o PadStart2(curDate.hours) \o PadStart2(curDate.minutes)
    \o PadStart2(curDate.seconds)

\* C30: createBackupDir names the directory destDir/prefix/YYYYMMDD_HHMMSS
\* after curDate, MM being the calendar month 01 to 12; a second call with the
\* same arguments returns the same directory.
C30_BackupDirOfDate ==
  (fnArgs # <<>> /\ fnArgs.fn = "createBackupDir") =>
     /\ \A i \in 1..Len(fnResult.backupDir) :
          fnResult.backupDir[i] =
            PathJoin(PathJoin(fnArgs.destDir, fnArgs.prefix), ExpectedDateDir(fnArgs.curDate))
     /\ \A i \in 1..Len(fnResult.backupDir) : fnResult.backupDir[i] \in fnResult.dirs

\* C27: makeBackup copies every source that exists to its destination and,
\* with removeOld, removes it; with removeOld = false the source is kept as it
\* is; an entry whose source does not exist is skipped: no error, and its
\* destination is as it was.
C27_MakeBackupMoves ==
  (fnArgs # <<>> /\ fnArgs.fn = "makeBackup") =>
     /\ fnResult.ok
     /\ \A i \in 1..Len(fnArgs.fileMap) :
          LET srcPath == fnArgs.fileMap[i].key
              destPath == fnArgs.fileMap[i].value
          IN IF Exists(fnArgs.files, srcPath)
             THEN /\ Exists(fnResult.files, destPath)
                  /\ fnResult.files[destPath] = fnArgs.files[srcPath]
                  /\ fnArgs.removeOld => ~Exists(fnResult.files, srcPath)
                  /\ ~fnArgs.removeOld =>
                       /\ Exists(fnResult.files, srcPath)
                       /\ fnResult.files[srcPath] = fnArgs.files[srcPath]
             ELSE /\ ~Exists(fnResult.files, srcPath)
                  /\ Exists(fnResult.files, destPath) <=> Exists(fnArgs.files, destPath)
                  /\ Exists(fnArgs.files, destPath) =>
                       fnResult.files[destPath] = fnArgs.files[destPath]

\* makeBackup was called with removeOld for two files of which one exists;
\* that one is in the backup directory, where it replaced an older file
C27_Witness ==
  /\ fnArgs # <<>>
  /\ fnArgs.fn = "makeBackup"
  /\ fnArgs.removeOld
  /\ Len(fnArgs.fileMap) = 2
  /\ Exists(fnArgs.files, fnArgs.fileMap[1].key)
  /\ ~Exists(fnArgs.files, fnArgs.fileMap[2].key)
  /\ Exists(fnArgs.files, fnArgs.fileMap[1].value)
  /\ fnResult.files[fnArgs.fileMap[1].value] = fnArgs.files[fnArgs.fileMap[1].key]

\* C28: backupOldPemKeys moves, for every node of its list, the private key
\* files storeSigningKey and storeAgreementKey wrote for the node, so that
\* none of them is left in keysDir.
C28_GossipKeysBackedUp ==
  (fnArgs # <<>> /\ fnArgs.fn = "backupOldPemKeys") =>
     \A i \in 1..Len(fnArgs.nodeIds) : \A role \in {"signing", "agreement"} :
       LET keyFile == NodeKeyFiles(fnArgs.nodeIds[i], role).privateKeyFile IN
         Exists(fnArgs.files, keyFile) => ~Exists(fnResult.files, keyFile)

=============================================================================
